---- MODULE Spec2Model ----
(***************************************************************************)
(* Segment-acquisition engine of the HLS downloader.                       *)
(*                                                                         *)
(* Part 1: NativeHLSDownloader.download (src/src/logic/native_downloader.py)*)
(*   the manifest and key requests, the round loop with its thread pool,   *)
(*   the acceptance threshold, the merge and the remux call.               *)
(* Part 2: PlaywrightDownloader.download.on_cdp_response                   *)
(*   (src/src/logic/playwright_downloader - (穩定版).py): the CDP response *)
(*   handler with its URL and content-fingerprint de-duplication.          *)
(* Part 3: the IV each segment is decrypted with (native_downloader.py and *)
(*   native_hls_downloader.py).                                            *)
(* Part 4: NativeHLSDownloader._download_segment_core at byte level: the   *)
(*   disguise stripping around the decryption.                             *)
(* Part 5: the global lock file of PlaywrightDownloader.                   *)
(* Parts 6-10: the layers around the downloaders: QueueManager, the        *)
(*   headers of DownloadWorker._try_download, the session headers, the     *)
(*   sniffer lock of DownloadWorker.run, BrowserDownloader's segment loop. *)
(* Part 11: the round loop of Part 1 with its tasks counted.               *)
(* Part 12: the playlist that the segments are taken from.                 *)
(* Part 13: CoreManager and its DownloadWorker threads.                    *)
(***************************************************************************)
EXTENDS Integers, Sequences, FiniteSets, TLC

(***************************************************************************)
(* Bounds of the model.                                                    *)
(***************************************************************************)
\* largest number of segments of a playlist in the full download (Spec)
MaxSegs == 2
\* round_idx is counted exactly up to MaxRound and stays there afterwards:
\* the code only tests round_idx == 1 and round_idx > 1
MaxRound == 7
\* largest number of segments in the assembly stage on its own (SpecAssemble)
MaxTotal == 6
\* number of CDP responses the handler receives (SpecCdp)
MaxEvents == 4
\* largest #EXT-X-MEDIA-SEQUENCE of a playlist (SpecIv)
MaxBase == 2
\* largest number of segments of a playlist with a key (SpecIv)
MaxIvSegs == 3
\* number of downloader processes that use the lock file (SpecLock)
MaxProcs == 3
\* add_task calls of a run of the queue (SpecQueue)
MaxTasks == 5
\* number of DownloadWorker threads (SpecSniff)
MaxWorkers == 3
\* largest number of segments of a playlist of BrowserDownloader (SpecBrowser)
MaxClips == 3
\* largest number of segments of a playlist in the round loop at counter level
\* (SpecRounds)
MaxPending == 9
\* rounds that the round loop at counter level runs (SpecRounds)
MaxSchedRound == 12
\* largest number of variants of a master playlist (SpecManifest)
MaxVariants == 3
\* largest declared BANDWIDTH of a variant (SpecManifest)
MaxBandwidth == 2
\* calls of CoreManager.start_download (SpecCore)
MaxStartCalls == 3
\* emissions of queue_started in a run of the queue (SpecQueue)
MaxSessions == 3

(***************************************************************************)
(* Program constants.                                                      *)
(***************************************************************************)
\* consecutive_no_progress >= 5
BlockedThreshold == 5
\* workers = 8 in round 1
BlitzWorkers == 8
\* workers = 3 in rounds >= 2
EnduranceWorkers == 3
\* len(final_bytes) > 1024
MinSegmentBytes == 1024

(***************************************************************************)
(* Part 1.  NativeHLSDownloader                                            *)
(***************************************************************************)
VARIABLES
    pc,                       \* position of the thread that runs download()
    is_cancelled,             \* self.is_cancelled
    temp_dir,                 \* TRUE while the directory _temp_<time> exists
    total_segs,               \* len(all_tasks); 0 before the playlist is parsed
    key,                      \* TRUE when key bytes were fetched (key is not None)
    store,                    \* files seg_%05d.ts of temp_dir: index -> bytes
    round_idx,
    consecutive_no_progress,
    success_in_this_round,
    future,                   \* the dict `futures` of the round: task index -> state
                              \* of its future; its domain is the list `pending`
    merged,                   \* bytes written to merged.ts so far
    merged_open,              \* TRUE once merged.ts was opened for writing
    files,                    \* the list `files` of line 196 (indices)
    remux_called,             \* _convert_to_mp4 was called
    output_file,              \* TRUE when output_path was produced
    result,                   \* return value of download(): "none", "true", "false"
    outcome,                  \* the return statement taken (for reading traces)
    no_done_rounds,           \* history: consecutive completed rounds with index
                              \* >= 2 in which no segment newly got stored content
                              \* (counted up to BlockedThreshold)
    cancelled_in_loop,        \* history: is_cancelled was set when the loop was left
    manifest_resp,            \* history: what the playlist request of line 63 gave
    manifest_requests,        \* history: number of playlist requests sent
    key_requests,             \* history: number of key requests sent
    loop_exit,                \* history: the exit of the while loop that was taken:
                              \* "cancelled" (line 119), "complete" (line 126),
                              \* "blocked" (line 183); "none" before
    progress_callback,        \* the caller passed a progress_callback
    report_count,             \* history: calls of progress_callback made by the
                              \* round in progress
    reported_done,            \* history: current_total_done of the last report
                              \* of line 173; -1 before the first
    reported_percent,         \* history: the percent of the last report, as the
                              \* fraction num / den
    attempts,                 \* history: per task of the round, the number of
                              \* session.get calls its _download_segment_core
                              \* has made
    failed_fetch              \* history: the tasks whose fetch returned False
                              \* since the last pass of line 123

nativeVars == <<pc, is_cancelled, temp_dir, total_segs, key, store, round_idx,
                consecutive_no_progress, success_in_this_round, future,
                merged, merged_open, files, remux_called, output_file, result,
                outcome, no_done_rounds, cancelled_in_loop, manifest_resp,
                manifest_requests, key_requests, loop_exit,
                progress_callback, report_count, reported_done,
                reported_percent, attempts, failed_fetch>>

\* the progress reports and the attempt counts
progVars == <<progress_callback, report_count, reported_done, reported_percent,
              attempts, failed_fetch>>

\* the request counters
reqVars == <<manifest_resp, manifest_requests, key_requests>>

(***************************************************************************)
(* State of PlaywrightDownloader (Part 2), declared here so that every     *)
(* action can say what it leaves alone.                                    *)
(***************************************************************************)
VARIABLES
    playlist,                 \* self.playlist is set
    seen_fingerprints,        \* self.seen_fingerprints: set of MD5 digests
    segments_map,             \* keys of self.segments_map: URLs already saved
    segment_counter,          \* self.segment_counter
    raw_files,                \* raw_%05d.tmp in output_dir: raw_files[n] = bytes
    cdp_cancelled,            \* self.is_cancelled of the PlaywrightDownloader
    cdp_events                \* number of responses handled so far

cdpVars == <<playlist, seen_fingerprints, segments_map, segment_counter,
             raw_files, cdp_cancelled, cdp_events>>

(***************************************************************************)
(* What an earlier run of download() for the same playlist and output_path *)
(* left on disk.                                                           *)
(***************************************************************************)
VARIABLES
    earlier_files,            \* the files seg_%05d.ts of the earlier run's
                              \* directory _temp_<t0>: index -> bytes
    run_time                  \* int(time.time()) of this run minus t0

diskVars == <<earlier_files, run_time>>

(***************************************************************************)
(* The derivation of the AES initialisation vectors (Part 3).              *)
(***************************************************************************)
VARIABLES
    iv_downloader,            \* "native": native_downloader.py,
                              \* "hls": native_hls_downloader.py
    iv_base,                  \* #EXT-X-MEDIA-SEQUENCE of the playlist
    iv_count,                 \* number of segments of the playlist
    iv_declared,              \* the IV attribute of #EXT-X-KEY as written
    iv_parsed,                \* the local `iv` / key_info['iv']; << >> when unset
    iv_used,                  \* per segment handled so far: its sequence number
                              \* and the IV its decryption gets
    iv_pc

ivVars == <<iv_downloader, iv_base, iv_count, iv_declared, iv_parsed, iv_used,
           iv_pc>>

(***************************************************************************)
(* One call of _download_segment_core at byte level (Part 4).              *)
(***************************************************************************)
VARIABLES
    strip_body,               \* r.content
    strip_key,                \* `key and iv` is true
    strip_cipher_ok,          \* AES.new(key, AES.MODE_CBC, iv) takes the key and
                              \* the iv: a key of 16, 24 or 32 bytes, an iv of 16
    strip_raised,             \* history: the try block of lines 238-240 raised
    strip_data,               \* the local `data`
    strip_cipher,             \* history: `data` as handed to the decryption
    strip_decrypted,          \* history: `data` after the decryption block
    strip_saved,              \* the bytes written to save_path
    strip_pc

stripVars == <<strip_body, strip_key, strip_cipher_ok, strip_raised, strip_data,
              strip_cipher, strip_decrypted, strip_saved, strip_pc>>

(***************************************************************************)
(* The global lock file of PlaywrightDownloader (Part 5): several          *)
(* processes, each running one downloader.                                 *)
(***************************************************************************)
VARIABLES
    lock_file,                \* pressplay_global.lock: -1 when it does not exist,
                              \* 0 when it exists and is empty, else the pid in it
    lock_pc,                  \* per process: its position in _acquire_lock /
                              \* _release_lock, or "dead"
    locked_by_me,             \* per process: self.locked_by_me
    locking_pid               \* per process: the local locking_pid

lockVars == <<lock_file, lock_pc, locked_by_me, locking_pid>>

(***************************************************************************)
(* QueueManager (Part 6).                                                  *)
(***************************************************************************)
VARIABLES
    waiting_queue,            \* self.waiting_queue: the ids of the queued tasks
    active_workers,           \* keys of self.active_workers
    is_processing,            \* self.is_processing
    tasks_added,              \* history: number of add_task calls so far
    taken,                    \* history: ids that _schedule_next took from the
                              \* queue (popleft, line 101)
    started,                  \* history: ids whose worker was handed to
                              \* thread_pool.start (line 126)
    queue_started,            \* history: emissions of the signal queue_started
    queue_finished            \* history: emissions of the signal queue_finished

queueVars == <<waiting_queue, active_workers, is_processing, tasks_added, taken,
               started, queue_started, queue_finished>>

(***************************************************************************)
(* The request headers of DownloadWorker._try_download (Part 7).  A string *)
(* is the sequence of its code points, a dict a function.                  *)
(***************************************************************************)
VARIABLES
    hdr_headers,              \* the argument `headers`
    hdr_raw,                  \* raw_headers as passed to _sanitize_headers_strict
    hdr_cookie_file,          \* temp_cookie_file is not None
    hdr_clean,                \* history: what _sanitize_headers_strict returned
    http_headers,             \* ydl_opts['http_headers'] (the dict final_headers)
    hdr_again,                \* what a second _sanitize_headers_strict returns
                              \* for the result of the first
    hdr_pc

hdrVars == <<hdr_headers, hdr_raw, hdr_cookie_file, hdr_clean, http_headers,
             hdr_again, hdr_pc>>

(***************************************************************************)
(* The session headers of NativeHLSDownloader.download (Part 8).           *)
(***************************************************************************)
VARIABLES
    ref_headers,              \* the argument `headers` (None as the empty dict)
    ref_page_url,             \* the argument `page_url`; "" for None
    session_headers,          \* session.headers
    ref_pc

refVars == <<ref_headers, ref_page_url, session_headers, ref_pc>>

(***************************************************************************)
(* DownloadWorker.run of downloader.py (Part 9): several worker threads    *)
(* and the module's GLOBAL_SNIFFER_LOCK.                                   *)
(***************************************************************************)
VARIABLES
    sniffer_lock,             \* GLOBAL_SNIFFER_LOCK: 0 when free, else the worker
                              \* that locked it
    run_pc,                   \* per worker: its position in run()
    worker_cancelled,         \* per worker: self.is_cancelled
    run_signal,               \* per worker: the terminal signal it emitted
    lock_taken,               \* history, per worker: lock() has returned
    has_selenium              \* HAS_SELENIUM

sniffVars == <<sniffer_lock, run_pc, worker_cancelled, run_signal, lock_taken,
               has_selenium>>

(***************************************************************************)
(* The segment loop of BrowserDownloader.download (Part 10).               *)
(***************************************************************************)
VARIABLES
    bd_pc,
    bd_total,                 \* total_segments
    bd_idx,                   \* idx of the for loop
    bd_encrypted,             \* the playlist declares an AES-128 key
    bd_cancelled,             \* self.is_cancelled
    bd_files,                 \* indices whose seg_%05d.ts exists with content
    bd_success_count,         \* success_count
    bd_key_requests,          \* history: requests sent to the key URI
    bd_keys_used,             \* history: the key bytes handed to AES.new
    bd_result                 \* return value: "none", "true", "false"

bdVars == <<bd_pc, bd_total, bd_idx, bd_encrypted, bd_cancelled, bd_files,
            bd_success_count, bd_key_requests, bd_keys_used, bd_result>>

(***************************************************************************)
(* The round loop of NativeHLSDownloader.download with its tasks counted   *)
(* instead of told apart (Part 11).                                        *)
(***************************************************************************)
VARIABLES
    sch_pc,                   \* "idle", "loop" (line 118), "pool" (inside the
                              \* with block of line 153), "exit"
    sch_round,                \* round_idx
    sch_left,                 \* tasks of all_tasks without stored content
    sch_workers,              \* max_workers of the executor of the round
    sch_queued,               \* submitted tasks that no pool thread has taken
    sch_running,              \* tasks that a pool thread is executing
    sch_success,              \* success_in_this_round
    sch_cnp,                  \* consecutive_no_progress
    sch_cancelled,            \* self.is_cancelled
    sch_cooldown,             \* history: the argument of the last
                              \* time.sleep(cooldown) of line 147; 0 before
    sch_sleeps                \* history: number of calls of line 147

schVars == <<sch_pc, sch_round, sch_left, sch_workers, sch_queued, sch_running,
             sch_success, sch_cnp, sch_cancelled, sch_cooldown, sch_sleeps>>

(***************************************************************************)
(* The playlist that a downloader takes its segments from (Part 12).       *)
(***************************************************************************)
VARIABLES
    mf_downloader,            \* "browser" (BrowserDownloader) or "native"
                              \* (NativeHLSDownloader)
    mf_variants,              \* playlist.playlists of the playlist at the URL
                              \* given: the declared bandwidth of each variant,
                              \* -1 for a variant without BANDWIDTH; empty for a
                              \* media playlist
    mf_pc,                    \* "idle", "call", "variant", "done"
    mf_selected,              \* index of `best` in playlist.playlists; 0: none
    mf_fetches,               \* history: requests sent for each variant's URI
    mf_source,                \* the playlist whose segments are downloaded:
                              \* "none", "top" or "variant"
    mf_segments,              \* the segment list is not empty
    mf_result                 \* "none"; "false" when download() has returned
                              \* False

mfVars == <<mf_downloader, mf_variants, mf_pc, mf_selected, mf_fetches,
            mf_source, mf_segments, mf_result>>

(***************************************************************************)
(* CoreManager and its DownloadWorker threads (Part 13).                   *)
(***************************************************************************)
VARIABLES
    cm_url,                   \* self.current_m3u8_url is a non-empty string
    cm_headers,               \* self.current_headers: "none" (None), "empty"
                              \* ({}) or "full" (a dict with entries)
    cm_sniff_running,         \* self.sniff_worker.isRunning()
    cm_sniffed,               \* history: _on_sniff_success ran since the last
                              \* reset() (or since __init__)
    cm_worker,                \* self.download_worker: number of the worker,
                              \* 0 for None
    cm_calls,                 \* history: calls of start_download
    cm_ret,                   \* history: what the last start_download returned:
                              \* "none", "true", "false"
    cm_waiting,               \* the GUI thread is inside download_worker.wait()
                              \* (line 255)
    dw_pc,                    \* per worker: "none" (not created), "created",
                              \* "started", "download", "emit", "returned",
                              \* "done"
    dw_cancelled,             \* per worker: self.is_cancelled
    dw_success,               \* per worker: the local `success`
    dw_emits,                 \* history, per worker: emissions of
                              \* finished_signal
    dw_emitted,               \* history, per worker: the result last emitted
                              \* with finished_signal: "none", "true", "false"
    dw_cancel_early,          \* history, per worker: cancel() was called before
                              \* manager.download returned or raised
    dw_late_progress          \* history, per worker: progress_signal was
                              \* emitted after cancel()

cmVars == <<cm_url, cm_headers, cm_sniff_running, cm_sniffed, cm_worker,
            cm_calls, cm_ret, cm_waiting>>

dwVars == <<dw_pc, dw_cancelled, dw_success, dw_emits, dw_emitted,
            dw_cancel_early, dw_late_progress>>

coreVars == <<cmVars, dwVars>>

\* the parts added to the engine and to the layers around it
lateVars == <<schVars, mfVars, coreVars>>

\* the layers around the downloaders
outerVars == <<queueVars, hdrVars, refVars, sniffVars, bdVars>>

\* what the actions of NativeHLSDownloader.download leave alone
nonNativeVars == <<cdpVars, diskVars, ivVars, stripVars, lockVars, outerVars,
    lateVars>>
\* what the CDP response handler leaves alone
nonCdpVars == <<nativeVars, diskVars, ivVars, stripVars, lockVars, outerVars,
    lateVars>>
\* what the IV derivation leaves alone
nonIvVars == <<nativeVars, cdpVars, diskVars, stripVars, lockVars, outerVars,
    lateVars>>
\* what the byte-level segment handling leaves alone
nonStripVars == <<nativeVars, cdpVars, diskVars, ivVars, lockVars, outerVars,
    lateVars>>
\* what the lock functions leave alone
nonLockVars == <<nativeVars, cdpVars, diskVars, ivVars, stripVars, outerVars,
    lateVars>>
\* the downloaders
engineVars == <<nativeVars, cdpVars, diskVars, ivVars, stripVars, lockVars>>
\* what QueueManager leaves alone
nonQueueVars == <<engineVars, hdrVars, refVars, sniffVars, bdVars,
    lateVars>>
\* what _try_download leaves alone
nonHdrVars == <<engineVars, queueVars, refVars, sniffVars, bdVars,
    lateVars>>
\* what the session set-up leaves alone
nonRefVars == <<engineVars, queueVars, hdrVars, sniffVars, bdVars,
    lateVars>>
\* what DownloadWorker.run leaves alone
nonSniffVars == <<engineVars, queueVars, hdrVars, refVars, bdVars,
    lateVars>>
\* what BrowserDownloader.download leaves alone
nonBdVars == <<engineVars, queueVars, hdrVars, refVars, sniffVars,
    lateVars>>
\* what the round loop at counter level leaves alone
nonSchVars == <<engineVars, outerVars, mfVars, coreVars>>
\* what the choice of the playlist leaves alone
nonMfVars == <<engineVars, outerVars, schVars, coreVars>>
\* what CoreManager and its workers leave alone
nonCoreVars == <<engineVars, outerVars, schVars, mfVars>>

\* all_tasks is indexed 0 .. total_segs-1 (enumerate(playlist.segments))
Tasks == 0 .. (total_segs - 1)

\* bodies the origin may send with status 200 for segment i: nothing, the
\* segment's own payload, or a decoy clip that it repeats for any segment.
\* All are shorter than 11 bytes and than one AES block, so neither the
\* disguise stripping (len(data) > 10) nor a successful decryption applies and
\* the bytes written are the bytes received.
Genuine(i) == <<i>>
Decoy == <<7, 7>>
Bodies(i) == {<< >>, Genuine(i), Decoy}

\* lines 107-108: fpath of task i is temp_dir/seg_<i, five digits or more>.ts;
\* the files of temp_dir are named here by that number
PathShared(i) == 0
PathOf(i) == i

\* os.path.exists(t[1]) and os.path.getsize(t[1]) > 0
HasContent(st, i) == PathOf(i) \in DOMAIN st /\ Len(st[PathOf(i)]) > 0

DoneSet(st) == {i \in Tasks : HasContent(st, i)}

\* line 123: pending = [t for t in all_tasks if not (exists and size > 0)]
PendingAll(st) == Tasks
PendingOf(st) == {i \in Tasks : ~HasContent(st, i)}

\* the segments of the round's pending list that have stored content by now
NewlyDone(st, f) == {i \in DOMAIN f : HasContent(st, i)}

\* lines 130-143: the pool size of the round
BlitzInEveryRound(r) == BlitzWorkers
Workers(r) == IF r = 1 THEN BlitzWorkers ELSE EnduranceWorkers

\* round_idx += 1 (exact below MaxRound)
NextRound(r) == IF r < MaxRound THEN r + 1 ELSE MaxRound

Settled(f) == \A i \in DOMAIN f : f[i] \notin {"queued", "running"}

\* lines 153-173: leaving the with block calls executor.shutdown(wait=True), which
\* returns when every submitted task has run to its end
PoolNotJoined(f) == TRUE
PoolJoined(f) == Settled(f)

\* lines 58-60: temp_dir is dirname(output_path)/_temp_<int(time.time())>; it is
\* the earlier run's directory only when both runs fall into the same second,
\* otherwise it is created empty
TempDirFiles == IF run_time = 0 THEN earlier_files ELSE << >>

\* lines 64 and 69: status 200 and a playlist with segments
ManifestOkOrEmpty(resp) == resp \in {"ok", "no_segments"}
ManifestOk(resp) == resp = "ok"

Return(val, why) ==
    /\ pc' = "returned"
    /\ result' = val
    /\ outcome' = why

\* stop(): may be called from another thread at any time
Stop ==
    /\ UNCHANGED nonNativeVars
    /\ UNCHANGED progVars
    /\ UNCHANGED <<reqVars, loop_exit>>
    /\ ~is_cancelled
    /\ pc # "returned"
    /\ is_cancelled' = TRUE
    /\ UNCHANGED <<pc, temp_dir, total_segs, key, store, round_idx,
                   consecutive_no_progress, success_in_this_round, future,
                   merged, merged_open, files, remux_called, output_file,
                   result, outcome, no_done_rounds,
                   cancelled_in_loop>>

\* lines 54-71: create temp_dir, request and parse the playlist
\* The playlist is the one the earlier run had: it lists every segment of
\* which that run left a file.
FetchManifest ==
    /\ UNCHANGED nonNativeVars
    /\ UNCHANGED progVars
    /\ pc = "start"
    /\ temp_dir' = TRUE
    /\ store' = TempDirFiles
    /\ manifest_requests' = manifest_requests + 1
    /\ \E resp \in {"ok", "http_error", "no_segments", "exception"} :
         /\ manifest_resp' = resp
         /\ IF ManifestOk(resp)
            THEN /\ \E n \in (IF resp = "ok" THEN 1 .. MaxSegs ELSE {0}) :
                      /\ \A i \in DOMAIN earlier_files : i < n \/ n = 0
                      /\ total_segs' = n
                 /\ pc' = "key"
                 /\ UNCHANGED <<result, outcome>>
            ELSE /\ Return("false", resp)
                 /\ UNCHANGED total_segs
    /\ UNCHANGED <<is_cancelled, key, round_idx, consecutive_no_progress,
                   success_in_this_round, future, merged, merged_open,
                   files, remux_called, output_file, no_done_rounds,
                   cancelled_in_loop, key_requests, loop_exit>>

\* lines 73-116: request the key if the playlist declares one, build all_tasks,
\* initialise the loop counters
FetchKey ==
    /\ UNCHANGED nonNativeVars
    /\ UNCHANGED progVars
    /\ pc = "key"
    /\ \E resp \in {"no_key", "ok", "http_error", "exception"} :
         /\ key_requests' = key_requests + (IF resp = "no_key" THEN 0 ELSE 1)
         /\ IF resp \in {"no_key", "ok"}
            THEN /\ key' = (resp = "ok")
                 /\ pc' = "loop"
                 /\ round_idx' = 0
                 /\ consecutive_no_progress' = 0
                 /\ UNCHANGED <<result, outcome>>
            ELSE /\ Return("false", "key_" \o resp)
                 /\ UNCHANGED <<key, round_idx, consecutive_no_progress>>
    /\ UNCHANGED <<is_cancelled, temp_dir, total_segs, store,
                   success_in_this_round, future, merged, merged_open,
                   files, remux_called, output_file, no_done_rounds,
                   cancelled_in_loop, manifest_resp, manifest_requests,
                   loop_exit>>

\* lines 118-158: top of the while loop up to the submission of the round's
\* tasks to the pool (the cooldown sleep of rounds >= 2 changes no state)
RoundStart ==
    /\ UNCHANGED nonNativeVars
    /\ UNCHANGED reqVars
    /\ pc = "loop"
    /\ IF is_cancelled
       THEN /\ pc' = "after_loop"
            /\ cancelled_in_loop' = TRUE
            /\ loop_exit' = "cancelled"
            /\ UNCHANGED <<round_idx, future, success_in_this_round>>
       ELSE /\ round_idx' = NextRound(round_idx)
            /\ IF PendingOf(store) = {}
               THEN /\ pc' = "after_loop"
                    /\ loop_exit' = "complete"
                    /\ UNCHANGED <<future, success_in_this_round,
                                   cancelled_in_loop>>
               ELSE /\ success_in_this_round' = 0
                    /\ future' = [i \in PendingOf(store) |-> "queued"]
                    /\ pc' = "collect"
                    /\ UNCHANGED <<cancelled_in_loop, loop_exit>>
    /\ attempts' = [i \in DOMAIN future' |-> 0]
    /\ failed_fetch' = {}
    /\ UNCHANGED <<progress_callback, report_count, reported_done,
                   reported_percent>>
    /\ UNCHANGED <<is_cancelled, temp_dir, total_segs, key, store,
                   consecutive_no_progress, merged, merged_open, files,
                   remux_called, output_file, result, outcome, no_done_rounds>>

\* a pool thread takes a queued task: _download_segment_core begins (sleep, GET)
WorkerStart(i) ==
    /\ UNCHANGED nonNativeVars
    /\ UNCHANGED progVars
    /\ UNCHANGED <<reqVars, loop_exit>>
    /\ pc \in {"collect", "shutdown"}
    /\ i \in DOMAIN future
    /\ future[i] = "queued"
    /\ Cardinality({j \in DOMAIN future : future[j] = "running"}) < Workers(round_idx)
    /\ future' = [future EXCEPT ![i] = "running"]
    /\ UNCHANGED <<pc, is_cancelled, temp_dir, total_segs, key, store, round_idx,
                   consecutive_no_progress, success_in_this_round,
                   merged, merged_open, files, remux_called, output_file, result,
                   outcome, no_done_rounds, cancelled_in_loop>>

\* lines 223 and 254-255: `return False` comes before the open() of line 252,
\* the files are as they were
TruncatedOnFailure(st, i) == (PathOf(i) :> << >>) @@ st
StoreAfterFailure(st, i) == st

\* lines 222-255: the one session.get of the call is answered; status 200
\* writes the body and returns True, anything else (another status, a timeout)
\* returns False at once (lines 223, 254-255)
WorkerFinish(i) ==
    /\ UNCHANGED nonNativeVars
    /\ attempts' = [attempts EXCEPT ![i] = @ + 1]
    /\ UNCHANGED <<progress_callback, report_count, reported_done,
                   reported_percent>>
    /\ UNCHANGED <<reqVars, loop_exit>>
    /\ pc \in {"collect", "shutdown"}
    /\ i \in DOMAIN future
    /\ future[i] = "running"
    /\ \/ /\ future' = [future EXCEPT ![i] = "false"]
          /\ store' = StoreAfterFailure(store, i)
          /\ failed_fetch' = failed_fetch \cup {i}
       \/ \E body \in Bodies(i) :
            /\ store' = (PathOf(i) :> body) @@ store
            /\ future' = [future EXCEPT ![i] = "true"]
            /\ UNCHANGED failed_fetch
    /\ UNCHANGED <<pc, is_cancelled, temp_dir, total_segs, key, round_idx,
                   consecutive_no_progress, success_in_this_round,
                   merged, merged_open, files, remux_called, output_file, result,
                   outcome, no_done_rounds, cancelled_in_loop>>

\* line 168: current_total_done = total_segs - len(pending) + success_in_this_round
CurrentTotalDone(total, pending, success) == total - Cardinality(pending) + success

\* line 170: percent = (current_total_done / total_segs) * 99, as a fraction
PercentOfHundred(done, total) == [num |-> done * 100, den |-> total]
Percent(done, total) == [num |-> done * 99, den |-> total]

\* line 202: progress_callback(99.5, ...)
RemuxPercent == [num |-> 199, den |-> 2]

\* lines 162-173: as_completed yields a finished future; lines 168-173 report
\* the progress when a callback was passed
Collect(i) ==
    /\ UNCHANGED nonNativeVars
    /\ UNCHANGED <<reqVars, loop_exit>>
    /\ pc = "collect"
    /\ i \in DOMAIN future
    /\ future[i] \in {"true", "false"}
    /\ IF is_cancelled
       THEN /\ pc' = "shutdown"
            /\ UNCHANGED <<future, success_in_this_round>>
            /\ UNCHANGED <<report_count, reported_done, reported_percent>>
       ELSE /\ success_in_this_round' =
                   success_in_this_round + (IF future[i] = "true" THEN 1 ELSE 0)
            /\ future' = [future EXCEPT ![i] = "seen"]
            /\ pc' = IF \A j \in DOMAIN future' : future'[j] = "seen"
                     THEN "shutdown" ELSE "collect"
            /\ IF progress_callback
               THEN /\ report_count' = report_count + 1
                    /\ reported_done' =
                           CurrentTotalDone(total_segs, DOMAIN future,
                                            success_in_this_round')
                    /\ reported_percent' = Percent(reported_done', total_segs)
               ELSE UNCHANGED <<report_count, reported_done, reported_percent>>
    /\ UNCHANGED <<progress_callback, attempts, failed_fetch>>
    /\ UNCHANGED <<is_cancelled, temp_dir, total_segs, key, store, round_idx,
                   consecutive_no_progress, merged, merged_open, files,
                   remux_called, output_file, result, outcome, no_done_rounds,
                   cancelled_in_loop>>

\* the counter update of lines 176-179
CountProgress(success, cnp) == IF success > 0 THEN 0 ELSE cnp + 1

\* the test of line 181
BlockedAtOnce(cnp, r) == cnp >= 1 /\ r > 1
Blocked(cnp, r) == cnp >= BlockedThreshold /\ r > 1

\* lines 153-173 (the with block ends: shutdown(wait=True) returns once every
\* submitted task has run) and lines 175-183.  The locals of the finished
\* round (futures, success_in_this_round) are dead from here on: the next
\* round assigns them before it reads them; of `futures` only the tasks that
\* have not run to their end would still matter, and the join leaves none.
RoundEnd ==
    /\ UNCHANGED nonNativeVars
    /\ UNCHANGED reqVars
    /\ pc = "shutdown"
    /\ PoolJoined(future)
    /\ consecutive_no_progress' =
           CountProgress(success_in_this_round, consecutive_no_progress)
    /\ IF Blocked(consecutive_no_progress', round_idx)
       THEN /\ pc' = "after_loop"
            /\ cancelled_in_loop' = is_cancelled
            /\ loop_exit' = "blocked"
       ELSE /\ pc' = "loop"
            /\ UNCHANGED <<cancelled_in_loop, loop_exit>>
    /\ future' = [i \in {j \in DOMAIN future : future[j] \in {"queued", "running"}}
                      |-> future[i]]
    /\ attempts' = [i \in DOMAIN future' |-> attempts[i]]
    /\ report_count' = 0
    /\ UNCHANGED <<progress_callback, reported_done, reported_percent,
                   failed_fetch>>
    /\ success_in_this_round' = 0
    /\ no_done_rounds' =
           IF round_idx > 1 /\ NewlyDone(store, future) = {}
           THEN (IF no_done_rounds < BlockedThreshold
                 THEN no_done_rounds + 1 ELSE BlockedThreshold)
           ELSE 0
    /\ UNCHANGED <<is_cancelled, temp_dir, total_segs, key, store, round_idx,
                   merged, merged_open, files, remux_called, output_file,
                   result, outcome>>

\* line 185: if self.is_cancelled: return False
CancelIgnored == FALSE
CancelSeen == is_cancelled

AfterLoop ==
    /\ UNCHANGED nonNativeVars
    /\ UNCHANGED progVars
    /\ UNCHANGED <<reqVars, loop_exit>>
    /\ pc = "after_loop"
    /\ IF CancelSeen
       THEN Return("false", "cancelled")
       ELSE /\ pc' = "count"
            /\ UNCHANGED <<result, outcome>>
    /\ UNCHANGED <<is_cancelled, temp_dir, total_segs, key, store, round_idx,
                   consecutive_no_progress, success_in_this_round, future,
                   merged, merged_open, files, remux_called, output_file,
                   no_done_rounds, cancelled_in_loop>>

\* line 188: final_count = len([t for t in all_tasks if exists and size > 0])
FinalCount(st) == Cardinality(DoneSet(st))

\* lines 189-194: merge when nothing is missing or when
\* final_count > total_segs * 0.8 (in tenths: 10 * final_count > 8 * total_segs;
\* the float product is exact for every total below 2000)
MergeAlways(final_count, total) == TRUE
MergeAllowed(final_count, total) ==
    ~(final_count < total) \/ 10 * final_count > 8 * total

\* line 196: files = [t[1] for t in all_tasks if os.path.exists(t[1])],
\* in the order of all_tasks
RECURSIVE FilesFrom(_, _)
FilesFrom(st, i) ==
    IF i >= total_segs THEN << >>
    ELSE (IF PathOf(i) \in DOMAIN st THEN <<PathOf(i)>> ELSE << >>)
         \o FilesFrom(st, i + 1)

RECURSIVE FilesDownFrom(_, _)
FilesDownFrom(st, i) ==
    IF i < 0 THEN << >>
    ELSE (IF i \in DOMAIN st THEN <<i>> ELSE << >>) \o FilesDownFrom(st, i - 1)

FilesReversed(st) == FilesDownFrom(st, total_segs - 1)
FilesList(st) == FilesFrom(st, 0)

\* lines 188-198: count, apply the threshold, list the files, open merged.ts
CountAndOpen ==
    /\ UNCHANGED nonNativeVars
    /\ UNCHANGED progVars
    /\ UNCHANGED <<reqVars, loop_exit>>
    /\ pc = "count"
    /\ IF MergeAllowed(FinalCount(store), total_segs)
       THEN /\ files' = FilesList(store)
            /\ merged_open' = TRUE
            /\ merged' = << >>
            /\ pc' = "merge"
            /\ UNCHANGED <<result, outcome>>
       ELSE /\ Return("false", "insufficient")
            /\ UNCHANGED <<files, merged_open, merged>>
    /\ UNCHANGED <<is_cancelled, temp_dir, total_segs, key, store, round_idx,
                   consecutive_no_progress, success_in_this_round, future,
                   remux_called, output_file, no_done_rounds, cancelled_in_loop>>

\* lines 199-200: one iteration of `for f in files`: copy the file to merged.ts
MergeStep ==
    /\ UNCHANGED nonNativeVars
    /\ UNCHANGED progVars
    /\ UNCHANGED <<reqVars, loop_exit>>
    /\ pc = "merge"
    /\ IF files # << >>
       THEN /\ merged' = merged \o store[Head(files)]
            /\ files' = Tail(files)
            /\ pc' = "merge"
       ELSE /\ pc' = "convert"
            /\ UNCHANGED <<merged, files>>
    /\ UNCHANGED <<is_cancelled, temp_dir, total_segs, key, store, round_idx,
                   consecutive_no_progress, success_in_this_round, future,
                   merged_open, remux_called, output_file, result, outcome,
                   no_done_rounds, cancelled_in_loop>>

\* lines 202-208: _convert_to_mp4 (an external ffmpeg run that succeeds or not),
\* shutil.rmtree(temp_dir), return success.  `store` keeps the last content of
\* the segment files; they exist on disk only while temp_dir is TRUE.
Convert ==
    /\ UNCHANGED nonNativeVars
    /\ UNCHANGED <<reqVars, loop_exit>>
    /\ pc = "convert"
    /\ reported_percent' = IF progress_callback THEN RemuxPercent
                           ELSE reported_percent
    /\ UNCHANGED <<progress_callback, report_count, reported_done, attempts,
                   failed_fetch>>
    /\ remux_called' = TRUE
    /\ temp_dir' = FALSE
    /\ \E success \in BOOLEAN, written \in BOOLEAN :
         /\ success => written
         /\ output_file' = written
         /\ Return(IF success THEN "true" ELSE "false", "converted")
    /\ UNCHANGED <<is_cancelled, total_segs, key, store, round_idx,
                   consecutive_no_progress, success_in_this_round, future,
                   merged, merged_open, files, no_done_rounds,
                   cancelled_in_loop>>

vars == <<nativeVars, cdpVars, diskVars, ivVars, stripVars, lockVars, outerVars,
         lateVars>>

\* nothing was reported, no task was submitted
NoReports ==
    /\ report_count = 0
    /\ reported_done = -1
    /\ reported_percent = [num |-> 0, den |-> 1]
    /\ attempts = << >>
    /\ failed_fetch = {}

\* download() before its first statement
NativeStart ==
    /\ NoReports
    /\ pc = "start"
    /\ is_cancelled = FALSE
    /\ temp_dir = FALSE
    /\ total_segs = 0
    /\ key = FALSE
    /\ store = << >>
    /\ round_idx = 0
    /\ consecutive_no_progress = 0
    /\ success_in_this_round = 0
    /\ future = << >>
    /\ merged = << >>
    /\ merged_open = FALSE
    /\ files = << >>
    /\ remux_called = FALSE
    /\ output_file = FALSE
    /\ result = "none"
    /\ outcome = "none"
    /\ no_done_rounds = 0
    /\ cancelled_in_loop = FALSE
    /\ manifest_resp = "none"
    /\ manifest_requests = 0
    /\ key_requests = 0
    /\ loop_exit = "none"

\* download() called without a progress_callback (the default, None)
NativeInit ==
    /\ NativeStart
    /\ progress_callback = FALSE

\* a first run: no earlier run has left a directory
DiskInit ==
    /\ earlier_files = << >>
    /\ run_time = 1

\* no key declaration is being handled
IvIdle ==
    /\ iv_downloader = "native"
    /\ iv_base = 0
    /\ iv_count = 0
    /\ iv_declared = [prefix |-> "none", digits |-> << >>]
    /\ iv_parsed = << >>
    /\ iv_used = << >>
    /\ iv_pc = "idle"

CdpInit ==
    /\ playlist = FALSE
    /\ seen_fingerprints = {}
    /\ segments_map = {}
    /\ segment_counter = 0
    /\ raw_files = << >>
    /\ cdp_cancelled = FALSE
    /\ cdp_events = 0

\* no segment response is being handled at byte level
StripIdle ==
    /\ strip_body = << >>
    /\ strip_key = FALSE
    /\ strip_cipher_ok = FALSE
    /\ strip_raised = FALSE
    /\ strip_data = << >>
    /\ strip_cipher = << >>
    /\ strip_decrypted = << >>
    /\ strip_saved = << >>
    /\ strip_pc = "idle"

\* the processes (os.getpid() of each is its number)
Procs == 1 .. MaxProcs

\* no process has called _acquire_lock
LockIdle ==
    /\ lock_file = -1
    /\ lock_pc = [p \in Procs |-> "idle"]
    /\ locked_by_me = [p \in Procs |-> FALSE]
    /\ locking_pid = [p \in Procs |-> 0]

\* QueueManager.__init__ (lines 35-40): nothing queued, nothing active
QueueIdle ==
    /\ waiting_queue = << >>
    /\ active_workers = {}
    /\ is_processing = FALSE
    /\ tasks_added = 0
    /\ taken = {}
    /\ started = {}
    /\ queue_started = 0
    /\ queue_finished = 0

\* _try_download has not been called
HeadersIdle ==
    /\ hdr_headers = << >>
    /\ hdr_raw = << >>
    /\ hdr_cookie_file = FALSE
    /\ hdr_clean = << >>
    /\ http_headers = << >>
    /\ hdr_again = << >>
    /\ hdr_pc = "idle"

\* no session has been set up
RefererIdle ==
    /\ ref_headers = << >>
    /\ ref_page_url = ""
    /\ session_headers = << >>
    /\ ref_pc = "idle"

\* the worker threads
RunWorkers == 1 .. MaxWorkers

\* no worker thread was started; the mutex of line 13 is free
SniffIdle ==
    /\ sniffer_lock = 0
    /\ run_pc = [w \in RunWorkers |-> "idle"]
    /\ worker_cancelled = [w \in RunWorkers |-> FALSE]
    /\ run_signal = [w \in RunWorkers |-> "none"]
    /\ lock_taken = [w \in RunWorkers |-> FALSE]
    /\ has_selenium = TRUE

\* BrowserDownloader.download has not reached its segment loop
BrowserIdle ==
    /\ bd_pc = "idle"
    /\ bd_total = 0
    /\ bd_idx = 0
    /\ bd_encrypted = FALSE
    /\ bd_cancelled = FALSE
    /\ bd_files = {}
    /\ bd_success_count = 0
    /\ bd_key_requests = 0
    /\ bd_keys_used = {}
    /\ bd_result = "none"

\* the layers around the downloaders before any call
OuterIdle == QueueIdle /\ HeadersIdle /\ RefererIdle /\ SniffIdle /\ BrowserIdle

\* the round loop at counter level has not been entered
RoundsIdle ==
    /\ sch_pc = "idle"
    /\ sch_round = 0
    /\ sch_left = 0
    /\ sch_workers = 0
    /\ sch_queued = 0
    /\ sch_running = 0
    /\ sch_success = 0
    /\ sch_cnp = 0
    /\ sch_cancelled = FALSE
    /\ sch_cooldown = 0
    /\ sch_sleeps = 0

\* no playlist has been requested
ManifestIdle ==
    /\ mf_downloader = "native"
    /\ mf_variants = << >>
    /\ mf_pc = "idle"
    /\ mf_selected = 0
    /\ mf_fetches = << >>
    /\ mf_source = "none"
    /\ mf_segments = FALSE
    /\ mf_result = "none"

\* the DownloadWorker objects that a run creates
DownloadWorkers == 1 .. MaxStartCalls

\* CoreManager.__init__ (lines 141-149)
CoreIdle ==
    /\ cm_url = FALSE
    /\ cm_headers = "none"
    /\ cm_sniff_running = FALSE
    /\ cm_sniffed = FALSE
    /\ cm_worker = 0
    /\ cm_calls = 0
    /\ cm_ret = "none"
    /\ cm_waiting = FALSE
    /\ dw_pc = [w \in DownloadWorkers |-> "none"]
    /\ dw_cancelled = [w \in DownloadWorkers |-> FALSE]
    /\ dw_success = [w \in DownloadWorkers |-> "none"]
    /\ dw_emits = [w \in DownloadWorkers |-> 0]
    /\ dw_emitted = [w \in DownloadWorkers |-> "none"]
    /\ dw_cancel_early = [w \in DownloadWorkers |-> FALSE]
    /\ dw_late_progress = [w \in DownloadWorkers |-> FALSE]

\* the parts added to the engine and to the layers around it before any call
LateIdle == RoundsIdle /\ ManifestIdle /\ CoreIdle

\* the parts that a specification does not exercise stay idle
PartsIdle == IvIdle /\ StripIdle /\ LockIdle /\ OuterIdle /\ LateIdle

Init == NativeInit /\ DiskInit /\ CdpInit /\ PartsIdle

\* the steps of download() and of its pool threads (everything but stop())
Step ==
    \/ FetchManifest
    \/ FetchKey
    \/ RoundStart
    \/ \E i \in 0 .. (MaxSegs - 1) : WorkerStart(i)
    \/ \E i \in 0 .. (MaxSegs - 1) : WorkerFinish(i)
    \/ \E i \in 0 .. (MaxSegs - 1) : Collect(i)
    \/ RoundEnd
    \/ AfterLoop
    \/ CountAndOpen
    \/ MergeStep
    \/ Convert

Next ==
    \/ Stop
    \/ FetchManifest
    \/ FetchKey
    \/ RoundStart
    \/ \E i \in 0 .. (MaxSegs - 1) : WorkerStart(i)
    \/ \E i \in 0 .. (MaxSegs - 1) : WorkerFinish(i)
    \/ \E i \in 0 .. (MaxSegs - 1) : Collect(i)
    \/ RoundEnd
    \/ AfterLoop
    \/ CountAndOpen
    \/ MergeStep
    \/ Convert

Spec == Init /\ [][Next]_vars

\* The thread running download() and the pool threads keep running: every
\* request ends (timeout=15 / 30 bounds it), every sleep ends.  stop() is the
\* caller's choice and gets no fairness.
FairSpec == Init /\ [][Next]_vars /\ WF_vars(Step)

\* download() called with a progress_callback
InitProgress == NativeStart /\ progress_callback = TRUE /\ DiskInit /\ CdpInit /\ PartsIdle

SpecProgress == InitProgress /\ [][Next]_vars

(***************************************************************************)
(* The assembly stage on its own: download() from the exit of the round    *)
(* loop (line 185) on, started in the states in which the loop can be left.*)
(***************************************************************************)
FileKinds == {"absent", "empty", "genuine", "decoy"}

BodyOfKind(kind, i) ==
    IF kind = "empty" THEN << >>
    ELSE IF kind = "genuine" THEN Genuine(i) ELSE Decoy

StoreOfKinds(f) ==
    [i \in {j \in DOMAIN f : f[j] # "absent"} |-> BodyOfKind(f[i], i)]

\* The loop counters with which the loop is left holding a given store:
\*  - cancelled in round 1 before a result was collected: the round's tasks
\*    still run and may leave any store; round 1 ends uncounted;
\*  - every segment has content: round 1 fetched them all, round 2 finds
\*    nothing pending;
\*  - some file was written but a segment is missing: round 1 wrote the files,
\*    rounds 2..6 got errors only (blocked after round 6);
\*  - nothing was ever written: rounds 1..5 got errors only.
InitAssemble ==
    /\ NoReports
    /\ progress_callback = FALSE
    /\ CdpInit
    /\ PartsIdle
    /\ DiskInit
    /\ pc = "after_loop"
    /\ total_segs \in 1 .. MaxTotal
    /\ \E f \in [0 .. (total_segs - 1) -> FileKinds] : store = StoreOfKinds(f)
    /\ is_cancelled \in BOOLEAN
    /\ cancelled_in_loop = is_cancelled
    /\ temp_dir = TRUE
    /\ key \in BOOLEAN
    /\ round_idx = IF is_cancelled THEN 1
                   ELSE IF DoneSet(store) = Tasks THEN 2
                   ELSE IF DOMAIN store # {} THEN 6 ELSE 5
    /\ consecutive_no_progress =
           IF is_cancelled THEN 1
           ELSE IF DoneSet(store) = Tasks THEN 0 ELSE BlockedThreshold
    /\ no_done_rounds =
           IF is_cancelled \/ DoneSet(store) = Tasks THEN 0
           ELSE IF DOMAIN store # {} THEN 5 ELSE 4
    /\ success_in_this_round = 0
    /\ future = << >>
    /\ merged = << >>
    /\ merged_open = FALSE
    /\ files = << >>
    /\ remux_called = FALSE
    /\ output_file = FALSE
    /\ result = "none"
    /\ outcome = "none"
    /\ manifest_resp = "ok"
    /\ manifest_requests = 1
    /\ key_requests = (IF key THEN 1 ELSE 0)
    /\ loop_exit = (IF is_cancelled THEN "cancelled"
                    ELSE IF DoneSet(store) = Tasks THEN "complete" ELSE "blocked")

NextAssemble ==
    \/ Stop
    \/ AfterLoop
    \/ CountAndOpen
    \/ MergeStep
    \/ Convert

SpecAssemble == InitAssemble /\ [][NextAssemble]_vars

(***************************************************************************)
(* A second run of download() for the same playlist and output_path: an    *)
(* earlier run returned False and left its directory _temp_<t0> with some  *)
(* segment files (download() removes temp_dir only after the remux step).  *)
(* The second run starts in the same second (run_time = 0) or later.       *)
(***************************************************************************)
InitResume ==
    /\ NativeInit
    /\ CdpInit
    /\ PartsIdle
    /\ \E f \in [0 .. (MaxSegs - 1) -> FileKinds] : earlier_files = StoreOfKinds(f)
    /\ run_time \in {0, 1}

NextResume ==
    \/ FetchManifest
    \/ FetchKey
    \/ RoundStart
    \/ \E i \in 0 .. (MaxSegs - 1) : WorkerStart(i)
    \/ \E i \in 0 .. (MaxSegs - 1) : WorkerFinish(i)
    \/ \E i \in 0 .. (MaxSegs - 1) : Collect(i)
    \/ RoundEnd
    \/ AfterLoop
    \/ CountAndOpen
    \/ MergeStep
    \/ Convert

SpecResume == InitResume /\ [][NextResume]_vars

(***************************************************************************)
(* Part 2.  PlaywrightDownloader.download.on_cdp_response                  *)
(***************************************************************************)
\* The URLs of the responses: a playlist, two media segments with a segment
\* extension, a segment without one, a page script.
Urls == {"list.m3u8", "a.ts", "b.ts", "chunk", "app.js"}
MimeTypes == {"application/vnd.apple.mpegurl", "video/mp2t",
              "application/octet-stream", "text/javascript"}
Statuses == {200, 404}

\* line 189: ".m3u8" in url
IsM3u8(url) == url = "list.m3u8"

\* lines 202-204: a segment by its URL or by its MIME type
IsSegment(url, mime) == url \in {"a.ts", "b.ts"} \/ mime = "video/mp2t"

\* Response bodies: a media playlist (holds #EXTINF), a master playlist (does
\* not), two different media payloads, and a payload of exactly 1024 bytes.
Playlists ==
    { [id |-> "media_playlist",  extinf |-> TRUE,  len |-> 1500],
      [id |-> "master_playlist", extinf |-> FALSE, len |-> 300] }
Clips ==
    { [id |-> "clip_A", extinf |-> FALSE, len |-> 2048],
      [id |-> "clip_B", extinf |-> FALSE, len |-> 2048],
      [id |-> "short",  extinf |-> FALSE, len |-> 1024] }
ResponseBodies == Playlists \cup Clips

\* what a server sends under each URL
Responses ==
    { r \in [url : Urls, mime : MimeTypes, body : ResponseBodies] :
        \/ /\ r.url = "list.m3u8"
           /\ r.mime = "application/vnd.apple.mpegurl"
           /\ r.body \in Playlists
        \/ /\ r.url \in {"a.ts", "b.ts"}
           /\ r.mime \in {"video/mp2t", "application/octet-stream"}
           /\ r.body \in Clips
        \/ /\ r.url = "chunk"
           /\ r.mime = "video/mp2t"
           /\ r.body \in Clips
        \/ /\ r.url = "app.js"
           /\ r.mime = "text/javascript"
           /\ r.body \in Clips }

\* line 219: hashlib.md5(final_bytes).hexdigest(); equal bytes give equal
\* digests and the bodies of the model have pairwise different digests
Md5(body) == <<"md5", body.id>>

\* line 198: self.seen_fingerprints.clear()
ClearFingerprints(seen) == {}

\* line 216: len(final_bytes) > 1024
BigEnough(body) == body.len > MinSegmentBytes

\* the caller sets is_cancelled on the downloader object
CdpCancel ==
    /\ ~cdp_cancelled
    /\ cdp_cancelled' = TRUE
    /\ UNCHANGED <<playlist, seen_fingerprints, segments_map, segment_counter,
                   raw_files, cdp_events>>
    /\ UNCHANGED nonCdpVars

\* lines 178-242: the handler of one Network.responseReceived event.
\* body_ok1 / body_ok2: whether the two Network.getResponseBody calls succeed
\* (a failure raises and is swallowed by the except of its block).
OnCdpResponse(url, mime, status, body, body_ok1, body_ok2) ==
    /\ cdp_events < MaxEvents
    /\ cdp_events' = cdp_events + 1
    /\ UNCHANGED <<cdp_cancelled, nonCdpVars>>
    /\ IF cdp_cancelled \/ status # 200
       THEN UNCHANGED <<playlist, seen_fingerprints, segments_map,
                        segment_counter, raw_files>>
       ELSE LET locked == IsM3u8(url) /\ ~playlist /\ body_ok1 /\ body.extinf
                seen1 == IF locked THEN ClearFingerprints(seen_fingerprints)
                                   ELSE seen_fingerprints
                save == /\ IsSegment(url, mime)
                        /\ url \notin segments_map
                        /\ body_ok2
                        /\ BigEnough(body)
                        /\ Md5(body) \notin seen1
            IN  /\ playlist' = (playlist \/ locked)
                /\ IF save
                   THEN /\ seen_fingerprints' = seen1 \cup {Md5(body)}
                        /\ segment_counter' = segment_counter + 1
                        /\ raw_files' = Append(raw_files, body.id)
                        /\ segments_map' = segments_map \cup {url}
                   ELSE /\ seen_fingerprints' = seen1
                        /\ UNCHANGED <<segment_counter, raw_files,
                                       segments_map>>

NextCdp ==
    \/ CdpCancel
    \/ \E r \in Responses, status \in Statuses,
          ok1 \in BOOLEAN, ok2 \in BOOLEAN :
         OnCdpResponse(r.url, r.mime, status, r.body, ok1, ok2)

SpecCdp == Init /\ [][NextCdp]_vars

(***************************************************************************)
(* Part 3.  The IV each segment is decrypted with:                         *)
(*   NativeHLSDownloader.download, lines 73-105 of native_downloader.py,   *)
(*   and _parse_key_line / download / _decrypt_segment of                  *)
(*   native_hls_downloader.py.                                             *)
(* The playlist declares a key; its segments have the sequence numbers     *)
(* iv_base, iv_base + 1, ...  The m3u8 library gives each Segment its      *)
(* sequence number as seg.media_sequence and the IV attribute as the       *)
(* string of the playlist.                                                 *)
(***************************************************************************)
\* to_bytes(16, ...)
IvLength == 16

\* n.to_bytes(len, 'big')
RECURSIVE ToBytes(_, _)
ToBytes(n, len) ==
    IF len = 0 THEN << >> ELSE Append(ToBytes(n \div 256, len - 1), n % 256)

\* bytes.fromhex(digits): two hexadecimal digits per byte
FromHex(digits) ==
    [k \in 1 .. (Len(digits) \div 2) |-> 16 * digits[2 * k - 1] + digits[2 * k]]

\* IV attributes of the model: none, or 32 hexadecimal digits after the
\* prefix 0x or 0X (both are allowed in a playlist)
IvDigits == [k \in 1 .. (2 * IvLength) |->
                IF k = 1 THEN 15 ELSE IF k = 2 * IvLength THEN 10 ELSE 0]
IvAttributes ==
    { [prefix |-> "none", digits |-> << >>],
      [prefix |-> "0x", digits |-> IvDigits],
      [prefix |-> "0X", digits |-> IvDigits] }

\* native_downloader.py line 104: seg.media_sequence if seg.media_sequence else i
SeqNum(media_sequence, i) == IF media_sequence # 0 THEN media_sequence ELSE i

\* native_downloader.py lines 86-87: if key_obj.iv:
\*     iv = bytes.fromhex(key_obj.iv.replace("0x", ""))
\* With the prefix 0X nothing is replaced and fromhex raises ValueError, which
\* the except of line 210 turns into return False.
IvNativeKey ==
    /\ iv_downloader = "native"
    /\ iv_pc = "key"
    /\ IF iv_declared.prefix = "0X"
       THEN /\ iv_pc' = "failed"
            /\ UNCHANGED iv_parsed
       ELSE /\ iv_parsed' = IF iv_declared.prefix = "none" THEN << >>
                             ELSE FromHex(iv_declared.digits)
            /\ iv_pc' = "tasks"
    /\ UNCHANGED <<iv_downloader, iv_base, iv_count, iv_declared, iv_used>>
    /\ UNCHANGED nonIvVars

\* native_downloader.py lines 96-109: one iteration of
\* for i, seg in enumerate(playlist.segments)
IvNativeTask ==
    /\ iv_downloader = "native"
    /\ iv_pc = "tasks"
    /\ LET i == Len(iv_used)
           media_sequence == iv_base + i
           current_iv == IF Len(iv_parsed) = 0
                         THEN ToBytes(SeqNum(media_sequence, i), IvLength)
                         ELSE iv_parsed
       IN  /\ iv_used' = Append(iv_used, [seq |-> media_sequence, iv |-> current_iv])
           /\ iv_pc' = IF i + 1 = iv_count THEN "done" ELSE "tasks"
    /\ UNCHANGED <<iv_downloader, iv_base, iv_count, iv_declared, iv_parsed>>
    /\ UNCHANGED nonIvVars

\* native_hls_downloader.py lines 135-155 (_parse_key_line):
\* re.search(r'IV=0x([0-9A-Fa-f]+)', line) and bytes.fromhex of the match;
\* without a match key_info has no 'iv'
IvHlsKey ==
    /\ iv_downloader = "hls"
    /\ iv_pc = "key"
    /\ iv_parsed' = IF iv_declared.prefix = "0x" THEN FromHex(iv_declared.digits)
                    ELSE << >>
    /\ iv_pc' = "tasks"
    /\ UNCHANGED <<iv_downloader, iv_base, iv_count, iv_declared, iv_used>>
    /\ UNCHANGED nonIvVars

\* native_hls_downloader.py line 68 (for i, segment_url in enumerate(segments, 1))
\* and lines 198-201 (_decrypt_segment): key_info['iv'] if present, else
\* index.to_bytes(16, byteorder='big')
IvHlsSegment ==
    /\ iv_downloader = "hls"
    /\ iv_pc = "tasks"
    /\ LET index == Len(iv_used) + 1
           iv == IF Len(iv_parsed) # 0 THEN iv_parsed
                 ELSE ToBytes(index, IvLength)
       IN  /\ iv_used' = Append(iv_used, [seq |-> iv_base + Len(iv_used), iv |-> iv])
           /\ iv_pc' = IF index = iv_count THEN "done" ELSE "tasks"
    /\ UNCHANGED <<iv_downloader, iv_base, iv_count, iv_declared, iv_parsed>>
    /\ UNCHANGED nonIvVars

InitIv ==
    /\ NativeInit
    /\ DiskInit
    /\ CdpInit
    /\ LateIdle
    /\ StripIdle
    /\ LockIdle
    /\ iv_downloader \in {"native", "hls"}
    /\ iv_base \in 0 .. MaxBase
    /\ iv_count \in 1 .. MaxIvSegs
    /\ iv_declared \in IvAttributes
    /\ iv_parsed = << >>
    /\ iv_used = << >>
    /\ iv_pc = "key"
    /\ OuterIdle

NextIv ==
    \/ IvNativeKey
    \/ IvNativeTask
    \/ IvHlsKey
    \/ IvHlsSegment

SpecIv == InitIv /\ [][NextIv]_vars

(***************************************************************************)
(* Part 4.  NativeHLSDownloader._download_segment_core at byte level, for  *)
(* a response with status 200: the disguise stripping (lines 227-234), the *)
(* decryption (lines 237-241), the second stripping (lines 244-250) and    *)
(* the write (line 252).                                                   *)
(***************************************************************************)
\* range(min(len(data), 4096))
ScanLimit == 4096
\* data[i+188]
TsPacket == 188
\* 0x47
SyncByte == 71
\* len(data) > 10
MinDisguised == 10
\* AES block size: CBC decryption needs len(data) % 16 == 0
AesBlock == 16
\* b'\x89PNG' and b'\xFF\xD8\xFF'
PngMagic == <<137, 80, 78, 71>>
JpegMagic == <<255, 216, 255>>

\* data.startswith(magic)
StartsWith(data, magic) ==
    /\ Len(data) >= Len(magic)
    /\ \A k \in 1 .. Len(magic) : data[k] = magic[k]

\* the first 0x47 of data, whatever follows it
FirstSyncByte(data) ==
    LET hits == {i \in 0 .. (Len(data) - 1) : data[i + 1] = SyncByte}
    IN  IF hits = {} THEN -1 ELSE CHOOSE i \in hits : \A j \in hits : i <= j

\* lines 229-233: the first i in range(min(len(data), 4096)) with
\* data[i] == 0x47 and i+188 < len(data) and data[i+188] == 0x47, else -1
\* (offsets count from 0, sequences from 1)
SyncOffset(data) ==
    LET limit == IF Len(data) < ScanLimit THEN Len(data) ELSE ScanLimit
        hits == {i \in 0 .. (limit - 1) :
                    /\ data[i + 1] = SyncByte
                    /\ i + TsPacket < Len(data)
                    /\ data[i + TsPacket + 1] = SyncByte}
    IN  IF hits = {} THEN -1 ELSE CHOOSE i \in hits : \A j \in hits : i <= j

\* lines 227-234 and again 244-250
StripDisguise(data) ==
    IF Len(data) > MinDisguised
       /\ (StartsWith(data, PngMagic) \/ StartsWith(data, JpegMagic))
    THEN LET sync_offset == SyncOffset(data)
         IN  IF sync_offset > 0
             THEN SubSeq(data, sync_offset + 1, Len(data))
             ELSE data
    ELSE data

\* A body of len bytes: the signature sig, transport-stream sync bytes at
\* offset `at` and every 188 bytes after it (none for at = -1), one more 0x47
\* at offset `stray` (none for -1), zero bytes elsewhere.
BuildBody(sig, at, stray, len) ==
    [k \in 1 .. len |->
        IF sig = "png" /\ k <= Len(PngMagic) THEN PngMagic[k]
        ELSE IF sig = "jpeg" /\ k <= Len(JpegMagic) THEN JpegMagic[k]
        ELSE IF at >= 0 /\ k - 1 >= at /\ (k - 1 - at) % TsPacket = 0 THEN SyncByte
        ELSE IF k - 1 = stray THEN SyncByte
        ELSE 0]

Signatures == {"png", "jpeg", "none"}
\* where the sync pattern starts: nowhere, at the first byte, at offset 37, at
\* the last offset that is scanned, at the first one that is not
SyncStarts == {-1, 0, 37, ScanLimit - 1, ScanLimit}
\* a single 0x47 in the leading bytes: none, one without a partner, one that
\* lies 188 bytes after the G of the PNG signature
StrayOffsets == {-1, 20, TsPacket + 3}
\* an empty body, a body shorter than 11 bytes, bodies of 25 AES blocks with
\* and without 37 leading bytes, a body longer than the scanned range
BodyLengths == {0, 8, 25 * AesBlock, 37 + 25 * AesBlock, ScanLimit + 37 * AesBlock}

SegmentBodies ==
    {BuildBody(sig, at, stray, len) :
        sig \in Signatures, at \in SyncStarts, stray \in StrayOffsets,
        len \in BodyLengths}

\* What AES-CBC decryption of `data` can give: the key is the origin's, so
\* any byte string of the same length, here plain or disguised streams.
Plaintexts(len) ==
    {BuildBody(sig, at, -1, len) : sig \in Signatures, at \in {-1, 0, 37}}

\* lines 227-234
StripFirst ==
    /\ strip_pc = "got"
    /\ strip_data' = StripDisguise(strip_data)
    /\ strip_cipher' = strip_data'
    /\ strip_pc' = "stripped"
    /\ UNCHANGED <<strip_body, strip_key, strip_cipher_ok, strip_raised,
                   strip_decrypted, strip_saved>>
    /\ UNCHANGED nonStripVars

\* lines 239-240: AES.new raises ValueError for a key or an iv of a wrong
\* length, cipher.decrypt(data) raises it unless the length of data is a
\* multiple of the block size
DecryptRaises(cipher_ok, data) == ~cipher_ok \/ Len(data) % AesBlock # 0

\* lines 237-241: `except: pass` keeps data as it is
Decrypt ==
    /\ strip_pc = "stripped"
    /\ strip_raised' = (strip_key /\ DecryptRaises(strip_cipher_ok, strip_data))
    /\ IF strip_key /\ ~DecryptRaises(strip_cipher_ok, strip_data)
       THEN \E plain \in Plaintexts(Len(strip_data)) : strip_data' = plain
       ELSE UNCHANGED strip_data
    /\ strip_decrypted' = strip_data'
    /\ strip_pc' = "decrypted"
    /\ UNCHANGED <<strip_body, strip_key, strip_cipher_ok, strip_cipher,
                   strip_saved>>
    /\ UNCHANGED nonStripVars

\* lines 244-250
StripSecond ==
    /\ strip_pc = "decrypted"
    /\ strip_data' = StripDisguise(strip_data)
    /\ strip_pc' = "restripped"
    /\ UNCHANGED <<strip_body, strip_key, strip_cipher_ok, strip_raised,
                   strip_cipher, strip_decrypted, strip_saved>>
    /\ UNCHANGED nonStripVars

\* line 252
WriteSegment ==
    /\ strip_pc = "restripped"
    /\ strip_saved' = strip_data
    /\ strip_pc' = "written"
    /\ UNCHANGED <<strip_body, strip_key, strip_cipher_ok, strip_raised,
                   strip_data, strip_cipher,
                   strip_decrypted>>
    /\ UNCHANGED nonStripVars

InitStrip ==
    /\ NativeInit
    /\ DiskInit
    /\ CdpInit
    /\ LateIdle
    /\ IvIdle
    /\ LockIdle
    /\ strip_body \in SegmentBodies
    /\ strip_key \in BOOLEAN
    /\ strip_cipher_ok \in BOOLEAN
    /\ strip_cipher_ok => strip_key
    /\ strip_raised = FALSE
    /\ strip_data = strip_body
    /\ strip_cipher = << >>
    /\ strip_decrypted = << >>
    /\ strip_saved = << >>
    /\ strip_pc = "got"
    /\ OuterIdle

NextStrip ==
    \/ StripFirst
    \/ Decrypt
    \/ StripSecond
    \/ WriteSegment

SpecStrip == InitStrip /\ [][NextStrip]_vars

(***************************************************************************)
(* Part 5.  PlaywrightDownloader._acquire_lock (lines 58-87),              *)
(* _is_pid_alive (lines 50-56) and _release_lock (lines 89-93), run by     *)
(* MaxProcs processes.  A process may die while it holds the lock.  The    *)
(* file is open from os.open to os.close; os.remove of a file that another *)
(* process has open fails on Windows (the platform of tasklist) and the    *)
(* error is passed over.                                                   *)
(***************************************************************************)
\* the processes that hold the lock by their own account: _acquire_lock
\* returned True and _release_lock has not finished
Holders ==
    {p \in Procs : lock_pc[p] \in {"holding", "release_exists", "release_remove"}}

\* lines 50-56: tasklist lists the pid
IsPidAlive(pid) == lock_pc[pid] # "dead"

\* os.remove(self.lock_file) with its error passed over
RemoveLockFile ==
    IF lock_file # -1 /\ \A q \in Procs : lock_pc[q] # "write"
    THEN lock_file' = -1
    ELSE UNCHANGED lock_file

\* download() line 124 calls _acquire_lock
LockCall(p) ==
    /\ lock_pc[p] = "idle"
    /\ lock_pc' = [lock_pc EXCEPT ![p] = "try"]
    /\ UNCHANGED <<lock_file, locked_by_me, locking_pid>>
    /\ UNCHANGED nonLockVars

\* line 61: if self.is_cancelled: return False (the caller has cancelled)
LockCancelled(p) ==
    /\ lock_pc[p] = "try"
    /\ lock_pc' = [lock_pc EXCEPT ![p] = "returned_false"]
    /\ UNCHANGED <<lock_file, locked_by_me, locking_pid>>
    /\ UNCHANGED nonLockVars

\* line 63: os.open(lock_file, O_CREAT | O_EXCL | O_WRONLY)
LockOpen(p) ==
    /\ lock_pc[p] = "try"
    /\ IF lock_file = -1
       THEN /\ lock_file' = 0
            /\ lock_pc' = [lock_pc EXCEPT ![p] = "write"]
       ELSE /\ lock_pc' = [lock_pc EXCEPT ![p] = "read"]
            /\ UNCHANGED lock_file
    /\ UNCHANGED <<locked_by_me, locking_pid>>
    /\ UNCHANGED nonLockVars

\* lines 64-68: write the pid, close, locked_by_me = True, return True
LockWrite(p) ==
    /\ lock_pc[p] = "write"
    /\ lock_file' = p
    /\ locked_by_me' = [locked_by_me EXCEPT ![p] = TRUE]
    /\ lock_pc' = [lock_pc EXCEPT ![p] = "holding"]
    /\ UNCHANGED locking_pid
    /\ UNCHANGED nonLockVars

\* lines 70-74: read the file; a missing file raises and an empty one is not a
\* number: both lead to the sleep of line 84
LockRead(p) ==
    /\ lock_pc[p] = "read"
    /\ IF lock_file > 0
       THEN /\ locking_pid' = [locking_pid EXCEPT ![p] = lock_file]
            /\ lock_pc' = [lock_pc EXCEPT ![p] = "check"]
       ELSE /\ lock_pc' = [lock_pc EXCEPT ![p] = "sleep"]
            /\ UNCHANGED locking_pid
    /\ UNCHANGED <<lock_file, locked_by_me>>
    /\ UNCHANGED nonLockVars

\* line 75: if not self._is_pid_alive(locking_pid)
LockCheck(p) ==
    /\ lock_pc[p] = "check"
    /\ lock_pc' = [lock_pc EXCEPT ![p] =
                      IF IsPidAlive(locking_pid[p]) THEN "sleep" ELSE "remove"]
    /\ UNCHANGED <<lock_file, locked_by_me, locking_pid>>
    /\ UNCHANGED nonLockVars

\* lines 76-79: remove the stale lock file and continue
LockRemoveStale(p) ==
    /\ lock_pc[p] = "remove"
    /\ RemoveLockFile
    /\ lock_pc' = [lock_pc EXCEPT ![p] = "try"]
    /\ UNCHANGED <<locked_by_me, locking_pid>>
    /\ UNCHANGED nonLockVars

\* lines 82-84: report and time.sleep(2)
LockSleep(p) ==
    /\ lock_pc[p] = "sleep"
    /\ lock_pc' = [lock_pc EXCEPT ![p] = "try"]
    /\ UNCHANGED <<lock_file, locked_by_me, locking_pid>>
    /\ UNCHANGED nonLockVars

\* the process dies while it holds the lock; its lock file stays
ProcessDies(p) ==
    /\ lock_pc[p] = "holding"
    /\ lock_pc' = [lock_pc EXCEPT ![p] = "dead"]
    /\ UNCHANGED <<lock_file, locked_by_me, locking_pid>>
    /\ UNCHANGED nonLockVars

\* download() lines 385-389 (cancelled), 421-422 (merged) and 427-430 (an
\* exception inside the try) call _release_lock;
\* line 90: if self.locked_by_me and os.path.exists(self.lock_file)
ReleaseExists(p) ==
    /\ lock_pc[p] = "holding"
    /\ lock_pc' = [lock_pc EXCEPT ![p] =
                      IF locked_by_me[p] /\ lock_file # -1
                      THEN "release_remove" ELSE "released"]
    /\ UNCHANGED <<lock_file, locked_by_me, locking_pid>>
    /\ UNCHANGED nonLockVars

\* lines 91-93: remove the file, locked_by_me = False
ReleaseRemove(p) ==
    /\ lock_pc[p] = "release_remove"
    /\ RemoveLockFile
    /\ locked_by_me' = [locked_by_me EXCEPT ![p] = FALSE]
    /\ lock_pc' = [lock_pc EXCEPT ![p] = "released"]
    /\ UNCHANGED locking_pid
    /\ UNCHANGED nonLockVars

\* download() lines 126-140, after _acquire_lock and before the try of line
\* 142: os.makedirs raises (the directory cannot be created) and the
\* exception leaves download()
SetupRaises(p) ==
    /\ lock_pc[p] = "holding"
    /\ lock_pc' = [lock_pc EXCEPT ![p] = "raised"]
    /\ UNCHANGED <<lock_file, locked_by_me, locking_pid>>
    /\ UNCHANGED nonLockVars

\* download() lines 166-175: the CDP session cannot be set up; the handler
\* logs and returns False
CdpInitFails(p) ==
    /\ lock_pc[p] = "holding"
    /\ lock_pc' = [lock_pc EXCEPT ![p] = "cdp_failed"]
    /\ UNCHANGED <<lock_file, locked_by_me, locking_pid>>
    /\ UNCHANGED nonLockVars

InitLock ==
    /\ NativeInit
    /\ DiskInit
    /\ CdpInit
    /\ LateIdle
    /\ IvIdle
    /\ StripIdle
    /\ LockIdle
    /\ OuterIdle

NextLock ==
    \/ \E p \in Procs : LockCall(p)
    \/ \E p \in Procs : LockCancelled(p)
    \/ \E p \in Procs : LockOpen(p)
    \/ \E p \in Procs : LockWrite(p)
    \/ \E p \in Procs : LockRead(p)
    \/ \E p \in Procs : LockCheck(p)
    \/ \E p \in Procs : LockRemoveStale(p)
    \/ \E p \in Procs : LockSleep(p)
    \/ \E p \in Procs : ProcessDies(p)
    \/ \E p \in Procs : ReleaseExists(p)
    \/ \E p \in Procs : ReleaseRemove(p)
    \/ \E p \in Procs : SetupRaises(p)
    \/ \E p \in Procs : CdpInitFails(p)

SpecLock == InitLock /\ [][NextLock]_vars

(***************************************************************************)
(* Part 6.  QueueManager (queue_manager.py) with the DownloadWorker it     *)
(* imports from downloader.py.  Every method runs on the GUI thread, one   *)
(* call at a time.  The task ids are the uuid4 strings of                  *)
(* MainWindow (main_window.py line 333): each add_task brings a new id,    *)
(* here the number of the call.                                            *)
(*                                                                         *)
(* _start_worker connects four signals of worker.signals before it stores  *)
(* and starts the worker.  WorkerSignals of downloader.py declares         *)
(* progress, status, finished and error: the attribute `cancelled` of line *)
(* 120 does not exist, the access raises AttributeError, and the exception *)
(* leaves _start_worker, _schedule_next and the calling method.  The task  *)
(* was taken from the queue by then.  No worker is ever stored or          *)
(* started, so no worker signal reaches the slots of lines 141-171.        *)
(***************************************************************************)
\* config.py line 27, passed to QueueManager by MainWindow (line 39)
max_concurrent == 3

\* the task ids handed out so far
TaskIds == 1 .. tasks_added

\* downloader.py lines 21-25: the signals that WorkerSignals declares
WorkerSignals == {"progress", "status", "finished", "error"}

\* queue_manager.py lines 117-120: the signals _start_worker connects, in order
ConnectedSignals == <<"progress", "finished", "error", "cancelled">>

\* _start_worker raises before line 123 when a connected signal is missing
StartWorkerRaises ==
    \E k \in 1 .. Len(ConnectedSignals) : ConnectedSignals[k] \notin WorkerSignals

\* lines 100-102: the while loop of _schedule_next with _start_worker
\* (lines 110-126); the result tells whether the loop was left by an exception
RECURSIVE ScheduleLoop(_, _, _, _)
ScheduleLoop(q, aw, tk, st) ==
    IF Cardinality(aw) < max_concurrent /\ q # << >>
    THEN IF StartWorkerRaises
         THEN [q |-> Tail(q), aw |-> aw, taken |-> tk \cup {Head(q)},
               started |-> st, raised |-> TRUE]
         ELSE ScheduleLoop(Tail(q), aw \cup {Head(q)}, tk \cup {Head(q)},
                           st \cup {Head(q)})
    ELSE [q |-> q, aw |-> aw, taken |-> tk, started |-> st, raised |-> FALSE]

\* lines 93-107: _schedule_next, called with is_processing = proc
ScheduleNext(q, aw, proc) ==
    IF ~proc
    THEN /\ waiting_queue' = q
         /\ active_workers' = aw
         /\ is_processing' = proc
         /\ UNCHANGED <<taken, started, queue_finished>>
    ELSE LET r == ScheduleLoop(q, aw, taken, started)
             drained == ~r.raised /\ r.aw = {} /\ r.q = << >>
         IN
         /\ waiting_queue' = r.q
         /\ active_workers' = r.aw
         /\ taken' = r.taken
         /\ started' = r.started
         /\ is_processing' = IF drained THEN FALSE ELSE proc
         /\ queue_finished' = IF drained THEN queue_finished + 1
                              ELSE queue_finished

\* lines 52-63: add_task
AddTask ==
    /\ UNCHANGED nonQueueVars
    /\ tasks_added < MaxTasks
    /\ tasks_added' = tasks_added + 1
    /\ UNCHANGED queue_started
    /\ ScheduleNext(Append(waiting_queue, tasks_added'), active_workers,
                    is_processing)

\* lines 65-70: start_processing
StartProcessing ==
    /\ UNCHANGED nonQueueVars
    /\ ~is_processing
    /\ queue_started < MaxSessions
    /\ queue_started' = queue_started + 1
    /\ UNCHANGED tasks_added
    /\ ScheduleNext(waiting_queue, active_workers, TRUE)

\* lines 72-74: stop_processing
StopProcessing ==
    /\ UNCHANGED nonQueueVars
    /\ is_processing
    /\ is_processing' = FALSE
    /\ UNCHANGED <<waiting_queue, active_workers, tasks_added, taken, started,
                   queue_started, queue_finished>>

\* lines 76-91: cancel_task; an active task is left to its worker, a waiting
\* task is removed from the queue
CancelTask(id) ==
    /\ UNCHANGED nonQueueVars
    /\ id \in TaskIds
    /\ waiting_queue' = IF id \in active_workers THEN waiting_queue
                        ELSE SelectSeq(waiting_queue, LAMBDA t : t # id)
    /\ UNCHANGED <<active_workers, is_processing, tasks_added, taken, started,
                   queue_started, queue_finished>>

\* lines 141-171: _handle_worker_finished, _handle_worker_error and
\* _handle_worker_cancelled: remove the worker and schedule.  A slot runs when
\* a started worker emits; NextQueue has no such step because none is started.
HandleWorkerSignal(id) ==
    /\ UNCHANGED nonQueueVars
    /\ id \in started
    /\ UNCHANGED <<tasks_added, queue_started>>
    /\ ScheduleNext(waiting_queue, active_workers \ {id}, is_processing)

InitQueue == Init

NextQueue ==
    \/ AddTask
    \/ StartProcessing
    \/ StopProcessing
    \/ \E id \in 1 .. MaxTasks : CancelTask(id)

SpecQueue == InitQueue /\ [][NextQueue]_vars

(***************************************************************************)
(* Part 7.  DownloadWorker._try_download, lines 197-246: the headers it    *)
(* hands to yt-dlp, and _sanitize_headers_strict (lines 174-185).          *)
(***************************************************************************)
\* the header names of the model: "Cookie", "_USE_COOKIE_FILE", "TE",
\* "X-" followed by U+540D, and the empty name
CookieName == <<67, 111, 111, 107, 105, 101>>
UseCookieFileName == <<95, 85, 83, 69, 95, 67, 79, 79, 75, 73, 69, 95, 70, 73, 76, 69>>
TeName == <<84, 69>>
WideName == <<88, 45, 21517>>
HeaderNames == <<CookieName, UseCookieFileName, TeName, WideName, << >> >>

\* the header values of the model: "", "a", U+00FF, "a" followed by U+0100
HeaderValues == {<< >>, <<97>>, <<255>>, <<97, 256>>}

\* the dicts `headers` may be
HeaderMaps ==
    UNION {[names -> HeaderValues] :
             names \in SUBSET {HeaderNames[k] : k \in 1 .. Len(HeaderNames)}}

\* headers.items(), in the order of HeaderNames
Items(h) ==
    LET present == SelectSeq(HeaderNames, LAMBDA n : n \in DOMAIN h)
    IN  [k \in 1 .. Len(present) |-> <<present[k], h[present[k]]>>]

\* the dict without an entry (del d[name])
Without(h, name) == [n \in DOMAIN h \ {name} |-> h[n]]

\* str.encode('latin-1') returns (it raises UnicodeEncodeError for a code
\* point above U+00FF)
EncodesAlways(str) == TRUE
Latin1Encodes(str) == \A i \in 1 .. Len(str) : str[i] <= 255

\* lines 176-184: the loop of _sanitize_headers_strict over the items left
RECURSIVE SanitizeFrom(_, _)
SanitizeFrom(items, clean_headers) ==
    IF items = << >> THEN clean_headers
    ELSE LET k == items[1][1]
             v == items[1][2]
         IN  IF k = << >> \/ v = << >>
             THEN SanitizeFrom(Tail(items), clean_headers)
             ELSE IF Latin1Encodes(k) /\ Latin1Encodes(v)
                  THEN SanitizeFrom(Tail(items), (k :> v) @@ clean_headers)
                  ELSE SanitizeFrom(Tail(items), clean_headers)

\* lines 174-185
SanitizeHeadersStrict(headers) == SanitizeFrom(Items(headers), << >>)

\* lines 197-206: copy the headers, turn the Cookie header into a cookie file
\* (_create_temp_cookie_file gives a path or None) and delete it
PrepareHeaders ==
    /\ UNCHANGED nonHdrVars
    /\ hdr_pc = "call"
    /\ IF CookieName \in DOMAIN hdr_headers
       THEN /\ hdr_cookie_file' \in BOOLEAN
            /\ hdr_raw' = Without(hdr_headers, CookieName)
       ELSE /\ hdr_cookie_file' = FALSE
            /\ hdr_raw' = hdr_headers
    /\ hdr_pc' = "sanitize"
    /\ UNCHANGED <<hdr_headers, hdr_clean, http_headers, hdr_again>>

\* lines 208-218: sanitise, put the result into ydl_opts
Sanitize ==
    /\ UNCHANGED nonHdrVars
    /\ hdr_pc = "sanitize"
    /\ hdr_clean' = SanitizeHeadersStrict(hdr_raw)
    /\ http_headers' = hdr_clean'
    /\ hdr_pc' = "options"
    /\ UNCHANGED <<hdr_headers, hdr_raw, hdr_cookie_file, hdr_again>>

\* lines 237-246: mount the cookie file; without one, a _USE_COOKIE_FILE
\* header that names an existing file is used and deleted from final_headers
MountCookie ==
    /\ UNCHANGED nonHdrVars
    /\ hdr_pc = "options"
    /\ \E exists \in BOOLEAN :
         http_headers' =
             IF /\ ~hdr_cookie_file
                /\ UseCookieFileName \in DOMAIN hdr_raw
                /\ hdr_raw[UseCookieFileName] # << >>
                /\ exists
                /\ UseCookieFileName \in DOMAIN http_headers
             THEN Without(http_headers, UseCookieFileName)
             ELSE http_headers
    /\ hdr_pc' = "ready"
    /\ UNCHANGED <<hdr_headers, hdr_raw, hdr_cookie_file, hdr_clean, hdr_again>>

\* _sanitize_headers_strict applied to what it returned
Resanitize ==
    /\ UNCHANGED nonHdrVars
    /\ hdr_pc = "ready"
    /\ hdr_again' = SanitizeHeadersStrict(hdr_clean)
    /\ hdr_pc' = "again"
    /\ UNCHANGED <<hdr_headers, hdr_raw, hdr_cookie_file, hdr_clean, http_headers>>

InitHeaders ==
    /\ NativeInit
    /\ DiskInit
    /\ CdpInit
    /\ LateIdle
    /\ IvIdle
    /\ StripIdle
    /\ LockIdle
    /\ QueueIdle
    /\ RefererIdle
    /\ SniffIdle
    /\ BrowserIdle
    /\ hdr_headers \in HeaderMaps
    /\ hdr_raw = << >>
    /\ hdr_cookie_file = FALSE
    /\ hdr_clean = << >>
    /\ http_headers = << >>
    /\ hdr_again = << >>
    /\ hdr_pc = "call"

NextHeaders ==
    \/ PrepareHeaders
    \/ Sanitize
    \/ MountCookie
    \/ Resanitize

SpecHeaders == InitHeaders /\ [][NextHeaders]_vars

(***************************************************************************)
(* Part 8.  NativeHLSDownloader.download, lines 54-56: the headers of the  *)
(* session, from the defaults of __init__ (lines 27-33), the caller's      *)
(* headers and the page URL.                                               *)
(***************************************************************************)
\* lines 27-33: self.headers (the entries the model follows)
DefaultHeaders ==
    [n \in {"User-Agent", "Accept", "Referer"} |->
        IF n = "User-Agent" THEN "Mozilla/5.0"
        ELSE IF n = "Accept" THEN "*/*" ELSE "https://www.google.com/"]

\* the headers a caller may pass
CallerHeaders ==
    UNION {[names -> {"https://site.example/watch", "a"}] :
             names \in SUBSET {"Referer", "Cookie", "User-Agent"}}

\* the page URLs a caller may pass; "" stands for None
PageUrls == {"", "https://site.example/watch", "https://site.example/embed"}

\* dict.update
Update(d, other) == [n \in DOMAIN d \cup DOMAIN other |->
                        IF n \in DOMAIN other THEN other[n] ELSE d[n]]

\* lines 38-46 and line 54: _get_session creates the session with self.headers
GetSession ==
    /\ UNCHANGED nonRefVars
    /\ ref_pc = "call"
    /\ session_headers' = Update(<< >>, DefaultHeaders)
    /\ ref_pc' = "update"
    /\ UNCHANGED <<ref_headers, ref_page_url>>

\* line 55: if headers: session.headers.update(headers)
UpdateHeaders ==
    /\ UNCHANGED nonRefVars
    /\ ref_pc = "update"
    /\ session_headers' = IF DOMAIN ref_headers # {}
                          THEN Update(session_headers, ref_headers)
                          ELSE session_headers
    /\ ref_pc' = "referer"
    /\ UNCHANGED <<ref_headers, ref_page_url>>

\* line 56: if page_url: session.headers["Referer"] = page_url
SetReferer(headers, page_url) ==
    IF page_url # "" THEN ("Referer" :> page_url) @@ headers ELSE headers

RefererFromPage ==
    /\ UNCHANGED nonRefVars
    /\ ref_pc = "referer"
    /\ session_headers' = SetReferer(session_headers, ref_page_url)
    /\ ref_pc' = "ready"
    /\ UNCHANGED <<ref_headers, ref_page_url>>

InitReferer ==
    /\ NativeInit
    /\ DiskInit
    /\ CdpInit
    /\ LateIdle
    /\ IvIdle
    /\ StripIdle
    /\ LockIdle
    /\ QueueIdle
    /\ HeadersIdle
    /\ SniffIdle
    /\ BrowserIdle
    /\ ref_headers \in CallerHeaders
    /\ ref_page_url \in PageUrls
    /\ session_headers = << >>
    /\ ref_pc = "call"

NextReferer ==
    \/ GetSession
    \/ UpdateHeaders
    \/ RefererFromPage

SpecReferer == InitReferer /\ [][NextReferer]_vars

(***************************************************************************)
(* Part 9.  DownloadWorker.run (downloader.py lines 61-106) on MaxWorkers  *)
(* threads that share GLOBAL_SNIFFER_LOCK (line 13), a QMutex.  stop()     *)
(* (lines 302-303) may be called for a worker at any time.                 *)
(***************************************************************************)
\* lines 76-77: the state of the mutex when the try statement of lines 71-78
\* is left on the given path by the worker that locked it: the finally clause
\* unlocks on every path
UnlockAfterTry(holder, path) == IF path = "cancelled" THEN holder ELSE 0
FinallyUnlock(holder, path) == 0

\* QThread.start(): run() begins
RunStart(w) ==
    /\ UNCHANGED nonSniffVars
    /\ run_pc[w] = "idle"
    /\ run_pc' = [run_pc EXCEPT ![w] = "download"]
    /\ UNCHANGED <<sniffer_lock, worker_cancelled, run_signal, lock_taken,
                   has_selenium>>

\* stop(): self.is_cancelled = True
StopWorker(w) ==
    /\ UNCHANGED nonSniffVars
    /\ run_pc[w] # "done"
    /\ ~worker_cancelled[w]
    /\ worker_cancelled' = [worker_cancelled EXCEPT ![w] = TRUE]
    /\ UNCHANGED <<sniffer_lock, run_pc, run_signal, lock_taken, has_selenium>>

\* lines 63-67 and 100-106: the first _try_download returns and run() branches
FirstDownload(w) ==
    /\ UNCHANGED nonSniffVars
    /\ run_pc[w] = "download"
    /\ \E success \in BOOLEAN :
         IF ~success /\ ~worker_cancelled[w]
         THEN IF has_selenium
              THEN /\ run_pc' = [run_pc EXCEPT ![w] = "wait_lock"]
                   /\ UNCHANGED run_signal
              ELSE /\ run_pc' = [run_pc EXCEPT ![w] = "done"]
                   /\ run_signal' = [run_signal EXCEPT ![w] = "error"]
         ELSE /\ run_pc' = [run_pc EXCEPT ![w] = "done"]
              /\ run_signal' = [run_signal EXCEPT ![w] =
                                   IF success /\ ~worker_cancelled[w]
                                   THEN "finished" ELSE "none"]
    /\ UNCHANGED <<sniffer_lock, worker_cancelled, lock_taken, has_selenium>>

\* line 70: GLOBAL_SNIFFER_LOCK.lock() returns once the mutex is free
LockSniffer(w) ==
    /\ UNCHANGED nonSniffVars
    /\ run_pc[w] = "wait_lock"
    /\ sniffer_lock = 0
    /\ sniffer_lock' = w
    /\ lock_taken' = [lock_taken EXCEPT ![w] = TRUE]
    /\ run_pc' = [run_pc EXCEPT ![w] = "locked"]
    /\ UNCHANGED <<worker_cancelled, run_signal, has_selenium>>

\* lines 71-74 with 76-77: cancelled while waiting: return through the finally
\* clause; otherwise the sniffing starts
CheckCancelled(w) ==
    /\ UNCHANGED nonSniffVars
    /\ run_pc[w] = "locked"
    /\ IF worker_cancelled[w]
       THEN /\ sniffer_lock' = FinallyUnlock(w, "cancelled")
            /\ run_pc' = [run_pc EXCEPT ![w] = "done"]
       ELSE /\ run_pc' = [run_pc EXCEPT ![w] = "sniffing"]
            /\ UNCHANGED sniffer_lock
    /\ UNCHANGED <<worker_cancelled, run_signal, lock_taken, has_selenium>>

\* lines 75-78 and 97-99: _perform_sniffing returns a URL, or None when the
\* sniffer found nothing or raised (lines 112-114); the finally clause unlocks
SniffEnds(w) ==
    /\ UNCHANGED nonSniffVars
    /\ run_pc[w] = "sniffing"
    /\ \E found \in {"url", "nothing", "exception"} :
         /\ sniffer_lock' = FinallyUnlock(w, found)
         /\ IF found = "url"
            THEN /\ run_pc' = [run_pc EXCEPT ![w] = "retry"]
                 /\ UNCHANGED run_signal
            ELSE /\ run_pc' = [run_pc EXCEPT ![w] = "done"]
                 /\ run_signal' = [run_signal EXCEPT ![w] = "error"]
    /\ UNCHANGED <<worker_cancelled, lock_taken, has_selenium>>

\* lines 80-96: the second _try_download with the sniffed URL and headers
RetryDownload(w) ==
    /\ UNCHANGED nonSniffVars
    /\ run_pc[w] = "retry"
    /\ \E success_retry \in BOOLEAN :
         run_signal' = [run_signal EXCEPT ![w] =
                           IF success_retry THEN "finished" ELSE "error"]
    /\ run_pc' = [run_pc EXCEPT ![w] = "done"]
    /\ UNCHANGED <<sniffer_lock, worker_cancelled, lock_taken, has_selenium>>

InitSniff ==
    /\ NativeInit
    /\ DiskInit
    /\ CdpInit
    /\ LateIdle
    /\ IvIdle
    /\ StripIdle
    /\ LockIdle
    /\ QueueIdle
    /\ HeadersIdle
    /\ RefererIdle
    /\ BrowserIdle
    /\ sniffer_lock = 0
    /\ run_pc = [w \in RunWorkers |-> "idle"]
    /\ worker_cancelled = [w \in RunWorkers |-> FALSE]
    /\ run_signal = [w \in RunWorkers |-> "none"]
    /\ lock_taken = [w \in RunWorkers |-> FALSE]
    /\ has_selenium \in BOOLEAN

NextSniff ==
    \/ \E w \in RunWorkers : RunStart(w)
    \/ \E w \in RunWorkers : StopWorker(w)
    \/ \E w \in RunWorkers : FirstDownload(w)
    \/ \E w \in RunWorkers : LockSniffer(w)
    \/ \E w \in RunWorkers : CheckCancelled(w)
    \/ \E w \in RunWorkers : SniffEnds(w)
    \/ \E w \in RunWorkers : RetryDownload(w)

SpecSniff == InitSniff /\ [][NextSniff]_vars

(***************************************************************************)
(* Part 10.  BrowserDownloader.download, lines 130-191: the single-thread  *)
(* segment loop.  The directory output_path + "_temp" may hold the files   *)
(* of an earlier run that did not reach line 202.                          *)
(***************************************************************************)
\* line 189: success_count < total_segments * 0.8
TooFew(success_count, total) == 10 * success_count < 8 * total

\* stop(): self.is_cancelled = True
BdStop ==
    /\ UNCHANGED nonBdVars
    /\ ~bd_cancelled
    /\ bd_pc # "done"
    /\ bd_cancelled' = TRUE
    /\ UNCHANGED <<bd_pc, bd_total, bd_idx, bd_encrypted, bd_files,
                   bd_success_count, bd_key_requests, bd_keys_used, bd_result>>

\* lines 139-157: the head of one iteration: the loop ends, is left for a
\* cancellation, skips a segment that is on disk, or goes on to fetch it
BdIterate ==
    /\ UNCHANGED nonBdVars
    /\ bd_pc = "loop"
    /\ IF bd_idx >= bd_total \/ bd_cancelled
       THEN /\ bd_pc' = "settle"
            /\ UNCHANGED <<bd_idx, bd_success_count>>
       ELSE IF bd_idx \in bd_files
            THEN /\ bd_success_count' = bd_success_count + 1
                 /\ bd_idx' = bd_idx + 1
                 /\ UNCHANGED bd_pc
            ELSE /\ bd_pc' = "get"
                 /\ UNCHANGED <<bd_idx, bd_success_count>>
    /\ UNCHANGED <<bd_total, bd_encrypted, bd_cancelled, bd_files,
                   bd_key_requests, bd_keys_used, bd_result>>

\* lines 160-166 and 176-182: the segment request is answered; a clear
\* segment with status 200 is written
BdSegment ==
    /\ UNCHANGED nonBdVars
    /\ bd_pc = "get"
    /\ \E resp \in {"200", "other", "exception"} :
         IF resp = "200"
         THEN IF bd_encrypted
              THEN /\ bd_pc' = "key"
                   /\ UNCHANGED <<bd_idx, bd_files, bd_success_count>>
              ELSE /\ bd_files' = bd_files \cup {bd_idx}
                   /\ bd_success_count' = bd_success_count + 1
                   /\ bd_idx' = bd_idx + 1
                   /\ bd_pc' = "loop"
         ELSE /\ bd_idx' = bd_idx + 1
              /\ bd_pc' = "loop"
              /\ UNCHANGED <<bd_files, bd_success_count>>
    /\ UNCHANGED <<bd_total, bd_encrypted, bd_cancelled, bd_key_requests,
                   bd_keys_used, bd_result>>

\* lines 168-178: the key is requested for this segment; whatever 16 bytes the
\* answer carries are the AES key (the status is not looked at); an exception
\* of the request or of AES.new (a body of another length) skips the segment
BdKey ==
    /\ UNCHANGED nonBdVars
    /\ bd_pc = "key"
    /\ bd_key_requests' = bd_key_requests + 1
    /\ \E content \in {"key", "other 16 bytes", "exception"} :
         IF content = "exception"
         THEN UNCHANGED <<bd_keys_used, bd_files, bd_success_count>>
         ELSE /\ bd_keys_used' = bd_keys_used \cup {content}
              /\ bd_files' = bd_files \cup {bd_idx}
              /\ bd_success_count' = bd_success_count + 1
    /\ bd_idx' = bd_idx + 1
    /\ bd_pc' = "loop"
    /\ UNCHANGED <<bd_total, bd_encrypted, bd_cancelled, bd_result>>

\* lines 188-206: too few segments fail the download, else merge and return True
BdSettle ==
    /\ UNCHANGED nonBdVars
    /\ bd_pc = "settle"
    /\ bd_result' = IF TooFew(bd_success_count, bd_total) THEN "false" ELSE "true"
    /\ bd_pc' = "done"
    /\ UNCHANGED <<bd_total, bd_idx, bd_encrypted, bd_cancelled, bd_files,
                   bd_success_count, bd_key_requests, bd_keys_used>>

InitBrowser ==
    /\ NativeInit
    /\ DiskInit
    /\ CdpInit
    /\ LateIdle
    /\ IvIdle
    /\ StripIdle
    /\ LockIdle
    /\ QueueIdle
    /\ HeadersIdle
    /\ RefererIdle
    /\ SniffIdle
    /\ bd_pc = "loop"
    /\ bd_total \in 1 .. MaxClips
    /\ bd_idx = 0
    /\ bd_encrypted \in BOOLEAN
    /\ bd_cancelled = FALSE
    /\ bd_files \in SUBSET (0 .. (bd_total - 1))
    /\ bd_success_count = 0
    /\ bd_key_requests = 0
    /\ bd_keys_used = {}
    /\ bd_result = "none"

NextBrowser ==
    \/ BdStop
    \/ BdIterate
    \/ BdSegment
    \/ BdKey
    \/ BdSettle

SpecBrowser == InitBrowser /\ [][NextBrowser]_vars

(***************************************************************************)
(* Part 11.  The round loop of NativeHLSDownloader.download (lines         *)
(* 118-183) with its tasks counted: how many are left without content, how *)
(* many wait in the executor, how many a pool thread is executing.  It     *)
(* reaches the playlists and the rounds that Part 1, which tells the tasks *)
(* apart, is too large for: more tasks than pool threads, ten rounds and   *)
(* more.                                                                   *)
(***************************************************************************)
\* line 145: cooldown = min(10 + (round_idx * 5), 60)
CooldownUncapped(r) == 10 + (r * 5)
Cooldown(r) == IF 10 + (r * 5) < 60 THEN 10 + (r * 5) ELSE 60

\* stop(): may be called from another thread at any time
SchStop ==
    /\ sch_pc \in {"loop", "pool"}
    /\ ~sch_cancelled
    /\ sch_cancelled' = TRUE
    /\ UNCHANGED <<sch_pc, sch_round, sch_left, sch_workers, sch_queued,
                   sch_running, sch_success, sch_cnp, sch_cooldown, sch_sleeps>>
    /\ UNCHANGED nonSchVars

\* lines 119-159: the exits at the top of the loop, the choice of the pool
\* size, the cooldown of the rounds after the first, the submission of the
\* pending tasks to a new executor
SchRoundStart ==
    /\ sch_pc = "loop"
    /\ sch_round < MaxSchedRound
    /\ IF sch_cancelled
       THEN /\ sch_pc' = "exit"
            /\ UNCHANGED <<sch_round, sch_workers, sch_queued, sch_success,
                           sch_cooldown, sch_sleeps>>
       ELSE /\ sch_round' = sch_round + 1
            /\ IF sch_left = 0
               THEN /\ sch_pc' = "exit"
                    /\ UNCHANGED <<sch_workers, sch_queued, sch_success,
                                   sch_cooldown, sch_sleeps>>
               ELSE /\ sch_workers' = Workers(sch_round')
                    /\ IF sch_round' = 1
                       THEN UNCHANGED <<sch_cooldown, sch_sleeps>>
                       ELSE /\ sch_cooldown' = Cooldown(sch_round')
                            /\ sch_sleeps' = sch_sleeps + 1
                    /\ sch_success' = 0
                    /\ sch_queued' = sch_left
                    /\ sch_pc' = "pool"
    /\ UNCHANGED <<sch_left, sch_running, sch_cnp, sch_cancelled>>
    /\ UNCHANGED nonSchVars

\* ThreadPoolExecutor(max_workers=workers): a pool thread that is free takes
\* a submitted task
SchTake ==
    /\ sch_pc = "pool"
    /\ sch_queued > 0
    /\ sch_running < sch_workers
    /\ sch_queued' = sch_queued - 1
    /\ sch_running' = sch_running + 1
    /\ UNCHANGED <<sch_pc, sch_round, sch_left, sch_workers, sch_success,
                   sch_cnp, sch_cancelled, sch_cooldown, sch_sleeps>>
    /\ UNCHANGED nonSchVars

\* lines 162-165 and 214-255: a task ends: it returns False, or True with an
\* empty file, or True with a file that has content; the loop of line 162
\* counts a True unless is_cancelled is set
SchDone ==
    /\ sch_pc = "pool"
    /\ sch_running > 0
    /\ sch_running' = sch_running - 1
    /\ \E ret \in {"false", "empty", "content"} :
         /\ sch_left' = IF ret = "content" THEN sch_left - 1 ELSE sch_left
         /\ sch_success' = IF ret # "false" /\ ~sch_cancelled
                           THEN sch_success + 1 ELSE sch_success
    /\ UNCHANGED <<sch_pc, sch_round, sch_workers, sch_queued, sch_cnp,
                   sch_cancelled, sch_cooldown, sch_sleeps>>
    /\ UNCHANGED nonSchVars

\* the with block ends once every submitted task has run; lines 175-183
SchRoundEnd ==
    /\ sch_pc = "pool"
    /\ sch_queued = 0
    /\ sch_running = 0
    /\ sch_cnp' = CountProgress(sch_success, sch_cnp)
    /\ sch_pc' = IF Blocked(sch_cnp', sch_round) THEN "exit" ELSE "loop"
    /\ sch_workers' = 0
    /\ sch_success' = 0
    /\ UNCHANGED <<sch_round, sch_left, sch_queued, sch_running, sch_cancelled,
                   sch_cooldown, sch_sleeps>>
    /\ UNCHANGED nonSchVars

\* all_tasks was built from a playlist with segments (lines 69-111), temp_dir
\* is new
InitRounds ==
    /\ NativeInit
    /\ DiskInit
    /\ CdpInit
    /\ IvIdle
    /\ StripIdle
    /\ LockIdle
    /\ OuterIdle
    /\ ManifestIdle
    /\ CoreIdle
    /\ sch_pc = "loop"
    /\ sch_round = 0
    /\ sch_left \in 1 .. MaxPending
    /\ sch_workers = 0
    /\ sch_queued = 0
    /\ sch_running = 0
    /\ sch_success = 0
    /\ sch_cnp = 0
    /\ sch_cancelled = FALSE
    /\ sch_cooldown = 0
    /\ sch_sleeps = 0

NextRounds ==
    \/ SchStop
    \/ SchRoundStart
    \/ SchTake
    \/ SchDone
    \/ SchRoundEnd

SpecRounds == InitRounds /\ [][NextRounds]_vars

(***************************************************************************)
(* Part 12.  From the playlist URL to the segment list:                    *)
(* BrowserDownloader.download (browser_downloader.py, lines 117-132) and   *)
(* NativeHLSDownloader.download (native_downloader.py, lines 61-71).       *)
(***************************************************************************)
\* p.stream_info.bandwidth or 0
BandwidthKey(bandwidth) == IF bandwidth > 0 THEN bandwidth ELSE 0

\* max(playlist.playlists, key=...): the first of the items with the largest
\* key
Best(playlists) ==
    CHOOSE k \in DOMAIN playlists :
        /\ \A j \in DOMAIN playlists :
               BandwidthKey(playlists[k]) >= BandwidthKey(playlists[j])
        /\ \A j \in 1 .. (k - 1) :
               BandwidthKey(playlists[j]) < BandwidthKey(playlists[k])

\* BANDWIDTH attributes: absent (-1) or a number
Bandwidths == {-1} \cup (1 .. MaxBandwidth)

\* the variants of a playlist: none (a media playlist) or up to MaxVariants
VariantLists ==
    UNION {[1 .. n -> Bandwidths] : n \in 0 .. MaxVariants}

\* browser_downloader.py lines 118-123 and 130-132, native_downloader.py
\* lines 63-71: request the playlist at the URL given and parse it.  m3u8
\* gives a master playlist an empty segment list; NativeHLSDownloader
\* returns False for it at line 71, BrowserDownloader goes on to its variants.
MfFetchTop ==
    /\ mf_pc = "call"
    /\ \E status_ok \in BOOLEAN, has_segments \in BOOLEAN :
         IF ~status_ok
         THEN /\ mf_result' = "false"
              /\ mf_pc' = "done"
              /\ UNCHANGED <<mf_source, mf_segments>>
         ELSE IF mf_variants # << >> /\ mf_downloader = "browser"
         THEN /\ mf_pc' = "variant"
              /\ UNCHANGED <<mf_result, mf_source, mf_segments>>
         ELSE /\ mf_segments' = (mf_variants = << >> /\ has_segments)
              /\ mf_source' = "top"
              /\ mf_result' = IF mf_downloader = "native" /\ ~mf_segments'
                              THEN "false" ELSE mf_result
              /\ mf_pc' = "done"
    /\ UNCHANGED <<mf_downloader, mf_variants, mf_selected, mf_fetches>>
    /\ UNCHANGED nonMfVars

\* browser_downloader.py lines 124-132: request the playlist of the best
\* variant and take playlist.segments from it, whatever it is
MfFetchVariant ==
    /\ mf_pc = "variant"
    /\ mf_selected' = Best(mf_variants)
    /\ mf_fetches' = [mf_fetches EXCEPT ![mf_selected'] = @ + 1]
    /\ \E is_variant \in BOOLEAN, has_segments \in BOOLEAN :
         mf_segments' = (~is_variant /\ has_segments)
    /\ mf_source' = "variant"
    /\ mf_pc' = "done"
    /\ UNCHANGED <<mf_downloader, mf_variants, mf_result>>
    /\ UNCHANGED nonMfVars

InitManifest ==
    /\ NativeInit
    /\ DiskInit
    /\ CdpInit
    /\ IvIdle
    /\ StripIdle
    /\ LockIdle
    /\ OuterIdle
    /\ RoundsIdle
    /\ CoreIdle
    /\ mf_downloader \in {"browser", "native"}
    /\ mf_variants \in VariantLists
    /\ mf_pc = "call"
    /\ mf_selected = 0
    /\ mf_fetches = [k \in DOMAIN mf_variants |-> 0]
    /\ mf_source = "none"
    /\ mf_segments = FALSE
    /\ mf_result = "none"

NextManifest ==
    \/ MfFetchTop
    \/ MfFetchVariant

SpecManifest == InitManifest /\ [][NextManifest]_vars

(***************************************************************************)
(* Part 13.  CoreManager (core_manager.py, lines 124-278) on the GUI       *)
(* thread and the DownloadWorker threads it starts (lines 17-72).          *)
(* DownloadManager.download is called as a function that reports progress  *)
(* any number of times and then returns True, returns False or raises.     *)
(***************************************************************************)
\* QThread.isRunning(): from start() until run() has returned
Running(pcs) ==
    {w \in DownloadWorkers : pcs[w] \in {"started", "download", "emit", "returned"}}

\* the worker that the next DownloadWorker(...) call creates
NewWorker ==
    CHOOSE w \in DownloadWorkers :
        /\ dw_pc[w] = "none"
        /\ \A v \in 1 .. (w - 1) : dw_pc[v] # "none"

\* line 204: not self.current_m3u8_url or not self.current_headers
NoSniffData(url, headers) == ~url \/ headers # "full"

\* start_sniff (lines 151-177) when no sniff is running
CmStartSniff ==
    /\ ~cm_waiting
    /\ ~cm_sniff_running
    /\ cm_sniff_running' = TRUE
    /\ UNCHANGED <<cm_url, cm_headers, cm_sniffed, cm_worker, cm_calls, cm_ret,
                   cm_waiting>>
    /\ UNCHANGED dwVars
    /\ UNCHANGED nonCoreVars

\* SniffWorker.run lines 104-111 and _on_sniff_success (lines 179-185):
\* headers is result.get('headers', {}), empty when the result has none
CmSniffSuccess ==
    /\ ~cm_waiting
    /\ cm_sniff_running
    /\ cm_sniff_running' = FALSE
    /\ cm_url' = TRUE
    /\ \E headers \in {"empty", "full"} : cm_headers' = headers
    /\ cm_sniffed' = TRUE
    /\ UNCHANGED <<cm_worker, cm_calls, cm_ret, cm_waiting>>
    /\ UNCHANGED dwVars
    /\ UNCHANGED nonCoreVars

\* SniffWorker.run lines 112-121 and _on_sniff_failed (lines 187-190)
CmSniffFailed ==
    /\ ~cm_waiting
    /\ cm_sniff_running
    /\ cm_sniff_running' = FALSE
    /\ UNCHANGED <<cm_url, cm_headers, cm_sniffed, cm_worker, cm_calls, cm_ret,
                   cm_waiting>>
    /\ UNCHANGED dwVars
    /\ UNCHANGED nonCoreVars

\* reset (lines 273-278)
CmReset ==
    /\ ~cm_waiting
    /\ cm_url' = FALSE
    /\ cm_headers' = "none"
    /\ cm_sniffed' = FALSE
    /\ UNCHANGED <<cm_sniff_running, cm_worker, cm_calls, cm_ret, cm_waiting>>
    /\ UNCHANGED dwVars
    /\ UNCHANGED nonCoreVars

\* start_download (lines 192-239)
CmStartDownload ==
    /\ ~cm_waiting
    /\ cm_calls < MaxStartCalls
    /\ cm_calls' = cm_calls + 1
    /\ \E auto_start \in BOOLEAN :
         IF NoSniffData(cm_url, cm_headers)
         THEN /\ cm_ret' = "false"
              /\ UNCHANGED <<cm_worker, dw_pc>>
         ELSE IF cm_worker # 0 /\ cm_worker \in Running(dw_pc)
         THEN /\ cm_ret' = "false"
              /\ UNCHANGED <<cm_worker, dw_pc>>
         ELSE /\ cm_worker' = NewWorker
              /\ dw_pc' = [dw_pc EXCEPT ![NewWorker] =
                               IF auto_start THEN "started" ELSE "created"]
              /\ cm_ret' = "true"
    /\ UNCHANGED <<cm_url, cm_headers, cm_sniff_running, cm_sniffed, cm_waiting>>
    /\ UNCHANGED <<dw_cancelled, dw_success, dw_emits, dw_emitted,
                   dw_cancel_early, dw_late_progress>>
    /\ UNCHANGED nonCoreVars

\* cancel_download (lines 250-255) with a running worker: cancel() (lines
\* 70-72), then wait()
CmCancelDownload ==
    /\ ~cm_waiting
    /\ cm_worker # 0
    /\ cm_worker \in Running(dw_pc)
    /\ dw_cancelled' = [dw_cancelled EXCEPT ![cm_worker] = TRUE]
    /\ dw_cancel_early' =
           [dw_cancel_early EXCEPT ![cm_worker] =
               @ \/ dw_pc[cm_worker] \in {"started", "download", "emit"}]
    /\ cm_waiting' = TRUE
    /\ UNCHANGED <<cm_url, cm_headers, cm_sniff_running, cm_sniffed, cm_worker,
                   cm_calls, cm_ret>>
    /\ UNCHANGED <<dw_pc, dw_success, dw_emits, dw_emitted, dw_late_progress>>
    /\ UNCHANGED nonCoreVars

\* line 255-256: wait() returns when the thread has ended
CmWaitEnds ==
    /\ cm_waiting
    /\ cm_worker \notin Running(dw_pc)
    /\ cm_waiting' = FALSE
    /\ UNCHANGED <<cm_url, cm_headers, cm_sniff_running, cm_sniffed, cm_worker,
                   cm_calls, cm_ret>>
    /\ UNCHANGED dwVars
    /\ UNCHANGED nonCoreVars

\* run() lines 35-50: up to the call of manager.download
DwBegin(w) ==
    /\ dw_pc[w] = "started"
    /\ dw_pc' = [dw_pc EXCEPT ![w] = "download"]
    /\ UNCHANGED <<dw_cancelled, dw_success, dw_emits, dw_emitted,
                   dw_cancel_early, dw_late_progress>>
    /\ UNCHANGED cmVars
    /\ UNCHANGED nonCoreVars

\* line 45: the download calls progress_callback, which finds is_cancelled
\* unset
DwProgressCheck(w) ==
    /\ dw_pc[w] = "download"
    /\ ~dw_cancelled[w]
    /\ dw_pc' = [dw_pc EXCEPT ![w] = "emit"]
    /\ UNCHANGED <<dw_cancelled, dw_success, dw_emits, dw_emitted,
                   dw_cancel_early, dw_late_progress>>
    /\ UNCHANGED cmVars
    /\ UNCHANGED nonCoreVars

\* lines 46-47: progress_signal.emit
DwProgressEmit(w) ==
    /\ dw_pc[w] = "emit"
    /\ dw_late_progress' = [dw_late_progress EXCEPT ![w] = @ \/ dw_cancelled[w]]
    /\ dw_pc' = [dw_pc EXCEPT ![w] = "download"]
    /\ UNCHANGED <<dw_cancelled, dw_success, dw_emits, dw_emitted,
                   dw_cancel_early>>
    /\ UNCHANGED cmVars
    /\ UNCHANGED nonCoreVars

\* lines 50-55 and 64-68: manager.download returns, or raises and the except
\* block emits finished_signal(False, ...)
DwDownloadEnds(w) ==
    /\ dw_pc[w] = "download"
    /\ \E end \in {"true", "false", "raise"} :
         IF end = "raise"
         THEN /\ dw_emits' = [dw_emits EXCEPT ![w] = @ + 1]
              /\ dw_emitted' = [dw_emitted EXCEPT ![w] = "false"]
              /\ dw_pc' = [dw_pc EXCEPT ![w] = "done"]
              /\ UNCHANGED dw_success
         ELSE /\ dw_success' = [dw_success EXCEPT ![w] = end]
              /\ dw_pc' = [dw_pc EXCEPT ![w] = "returned"]
              /\ UNCHANGED <<dw_emits, dw_emitted>>
    /\ UNCHANGED <<dw_cancelled, dw_cancel_early, dw_late_progress>>
    /\ UNCHANGED cmVars
    /\ UNCHANGED nonCoreVars

\* lines 57-62
EmitsSuccess(cancelled, success) == ~cancelled /\ success = "true"

DwFinish(w) ==
    /\ dw_pc[w] = "returned"
    /\ dw_emits' = [dw_emits EXCEPT ![w] = @ + 1]
    /\ dw_emitted' = [dw_emitted EXCEPT ![w] =
           IF EmitsSuccess(dw_cancelled[w], dw_success[w])
           THEN "true" ELSE "false"]
    /\ dw_pc' = [dw_pc EXCEPT ![w] = "done"]
    /\ UNCHANGED <<dw_cancelled, dw_success, dw_cancel_early, dw_late_progress>>
    /\ UNCHANGED cmVars
    /\ UNCHANGED nonCoreVars

InitCore == Init

NextCore ==
    \/ CmStartSniff
    \/ CmSniffSuccess
    \/ CmSniffFailed
    \/ CmReset
    \/ CmStartDownload
    \/ CmCancelDownload
    \/ CmWaitEnds
    \/ \E w \in DownloadWorkers : DwBegin(w)
    \/ \E w \in DownloadWorkers : DwProgressCheck(w)
    \/ \E w \in DownloadWorkers : DwProgressEmit(w)
    \/ \E w \in DownloadWorkers : DwDownloadEnds(w)
    \/ \E w \in DownloadWorkers : DwFinish(w)

SpecCore == InitCore /\ [][NextCore]_vars

(***************************************************************************)
(* Claims about NativeHLSDownloader.download                               *)
(***************************************************************************)
InRound == pc \in {"collect", "shutdown"}
LoopLeft == pc \in {"after_loop", "count", "merge", "convert", "returned"}

\* C1 (as claimed): once five consecutive rounds after round 1 have ended
\* without any segment newly getting stored content, the scheduler has
\* stopped: no further round is running.
C1_BlockedAfterFiveRounds ==
    no_done_rounds >= BlockedThreshold => ~InRound

\* C2 (as claimed): whatever the origin answers, the thread running
\* download() eventually leaves the round loop (or returns before it).
C2_LeavesLoop == <>LoopLeft

\* C4 (as claimed): once is_cancelled is set, no task that is still queued
\* is started.
C4_NoStartAfterStop ==
    [][is_cancelled =>
         \A i \in DOMAIN future :
             (future[i] = "queued" /\ i \in DOMAIN future')
                 => future'[i] # "running"]_vars

\* C6: a segment that has stored content keeps exactly these bytes, is not in
\* the pending list of any later round and no fetch is started for it.
C6_DoneIsTerminal ==
    [][\A i \in Tasks :
          HasContent(store, i) =>
              /\ HasContent(store', i)
              /\ store'[i] = store[i]
              /\ (i \in DOMAIN future' => i \in DOMAIN future)
              /\ (i \in DOMAIN future' /\ future'[i] = "running"
                      => future[i] = "running")]_vars

\* C6 witness: a round after the first is fetching a missing segment while
\* another segment already has its content from an earlier round.
C6_Witness ==
    /\ pc = "collect"
    /\ round_idx >= 2
    /\ \E i \in Tasks, j \in Tasks :
         /\ HasContent(store, i) /\ i \notin DOMAIN future
         /\ j \in DOMAIN future /\ future[j] = "true" /\ HasContent(store, j)

\* C8 (as claimed): when download() has returned, temp_dir is gone.
C8_TempDirReclaimed ==
    pc = "returned" => ~temp_dir

\* C10: when is_cancelled was set by the time the round loop was left,
\* merged.ts is never opened, the remux step is never called, no output file
\* appears and download() returns False.
C10_CancelledNeverAssembles ==
    cancelled_in_loop =>
        /\ ~merged_open
        /\ ~remux_called
        /\ ~output_file
        /\ (pc = "returned" => result = "false")

\* C10 witness: download() has returned after a cancellation seen in the loop
\* although every one of several segments has its content.
C10_Witness ==
    /\ pc = "returned"
    /\ cancelled_in_loop
    /\ total_segs > 1
    /\ DoneSet(store) = Tasks

\* C15 (as claimed): a failed key request does not end the job: download()
\* never returns because the key request failed.
C15_KeyFailureNotFatal ==
    pc = "returned" => outcome \notin {"key_http_error", "key_exception"}

\* C16: when the playlist request gives a non-200 status or a playlist without
\* segments, download() has returned False at once: one playlist request was
\* sent and no other, no key request, no round was started and no segment
\* task exists.
C16_ManifestFailureImmediate ==
    /\ manifest_requests <= 1
    /\ manifest_resp \in {"http_error", "no_segments"} =>
           /\ pc = "returned"
           /\ result = "false"
           /\ manifest_requests = 1
           /\ key_requests = 0
           /\ round_idx = 0
           /\ future = << >>
           /\ store = << >>

\* C16 witness: download() has returned for a playlist without segments.
C16_Witness ==
    /\ pc = "returned"
    /\ manifest_resp = "no_segments"
    /\ outcome = "no_segments"

\* C17: a round's tasks have all run to their end before the thread of
\* download() is back at the top of the loop, and so before the next round
\* computes its pending list and submits its first task; outside a round no
\* fetch is queued or in flight.  This includes the round whose results the
\* thread stopped collecting because of a cancellation.
C17_RoundsSequential ==
    [][/\ (pc' \notin {"collect", "shutdown"} => Settled(future'))
       /\ (pc = "loop" /\ pc' = "collect" => Settled(future))]_vars

\* C17 witness: in a round after the first the thread has stopped collecting
\* results because of a cancellation while a task of the round is in flight.
C17_Witness ==
    /\ pc = "shutdown"
    /\ round_idx >= 2
    /\ is_cancelled
    /\ \E i \in DOMAIN future : future[i] = "running"

C11_ResumeFetchesOnlyMissing ==
    \A i \in DOMAIN future :
        future[i] # "queued" =>
            ~(i \in DOMAIN earlier_files /\ Len(earlier_files[i]) > 0)

(***************************************************************************)
(* Claims about the threshold and the merge                                *)
(***************************************************************************)
\* bytes of the segment files before index i, in index order
RECURSIVE Offset(_, _)
Offset(st, i) ==
    IF i <= 0 THEN 0
    ELSE Offset(st, i - 1)
         + (IF (i - 1) \in DOMAIN st THEN Len(st[i - 1]) ELSE 0)

MergeFinished == pc = "convert" \/ (pc = "returned" /\ remux_called)

\* C3 (as claimed): when at least 80% of the segments have stored content the
\* job is not failed for too many missing segments.
C3_AcceptAtEightyPercent ==
    (pc = "returned" /\ outcome = "insufficient")
        => 10 * FinalCount(store) < 8 * total_segs

\* C5: the merged stream holds the bytes of every stored segment file exactly
\* once, at the offset given by the lengths of the files of lower index, and
\* nothing else: concatenation in ascending index order, nothing for a
\* missing segment.
C5_MergedInSequenceOrder ==
    MergeFinished =>
        /\ Len(merged) = Offset(store, total_segs)
        /\ \A i \in DOMAIN store :
             \A k \in 1 .. Len(store[i]) :
                 merged[Offset(store, i) + k] = store[i][k]

\* C5 witness: a finished merge with a missing segment between two stored
\* ones whose contents differ.
C5_Witness ==
    /\ pc = "convert"
    /\ \E i \in Tasks, j \in Tasks, m \in Tasks :
         /\ i < m /\ m < j
         /\ m \notin DOMAIN store
         /\ HasContent(store, i) /\ HasContent(store, j)
         /\ store[i] # store[j]

\* C9: with fewer than 80% of the segments stored, merged.ts is not written,
\* the remux step is not called, no output file appears and download()
\* returns False.
C9_RejectBelowEightyPercent ==
    10 * FinalCount(store) < 8 * total_segs =>
        /\ ~merged_open
        /\ ~remux_called
        /\ ~output_file
        /\ (pc = "returned" => result = "false")

\* C9 witness: an uncancelled job returned for missing segments with three
\* quarters of its segments stored.
C9_Witness ==
    /\ pc = "returned"
    /\ outcome = "insufficient"
    /\ ~is_cancelled
    /\ total_segs = 4
    /\ FinalCount(store) = 3

(***************************************************************************)
(* Claims about the IV derivation                                          *)
(***************************************************************************)
\* the 16-byte big-endian encoding of a sequence number below 256:
\* fifteen zero bytes, then the number
SequenceIv(seq) == [j \in 1 .. 16 |-> IF j = 16 THEN seq ELSE 0]

\* C13 (as claimed): without a declared IV every segment is decrypted with the
\* 16-byte big-endian encoding of its sequence number; with a declared IV
\* every segment is decrypted with that IV.
C13_IvFromSequenceNumber ==
    \A k \in 1 .. Len(iv_used) :
        iv_used[k].iv = IF iv_declared.prefix = "none"
                        THEN SequenceIv(iv_used[k].seq)
                        ELSE FromHex(iv_declared.digits)

(***************************************************************************)
(* Claims about the disguise stripping                                     *)
(***************************************************************************)
\* the sync pattern starts at offset o of d: 0x47 at o and again 188 bytes on
SyncAt(d, o) ==
    /\ o + 188 < Len(d)
    /\ d[o + 1] = 71
    /\ d[o + 189] = 71

Disguised(d) ==
    \/ Len(d) >= 4 /\ SubSeq(d, 1, 4) = <<137, 80, 78, 71>>
    \/ Len(d) >= 3 /\ SubSeq(d, 1, 3) = <<255, 216, 255>>

\* s is d from the first offset below 4096 at which the sync pattern starts
\* when d starts with an image signature and there is such an offset, and is
\* d itself otherwise
StrippedFrom(d, s) ==
    IF Disguised(d) /\ \E o \in 0 .. 4095 : SyncAt(d, o)
    THEN \E o \in 0 .. 4095 :
            /\ SyncAt(d, o)
            /\ \A e \in 0 .. (o - 1) : ~SyncAt(d, e)
            /\ Len(s) = Len(d) - o
            /\ \A k \in 1 .. Len(s) : s[k] = d[o + k]
    ELSE s = d

C20_LockMutualExclusion ==
    /\ Cardinality(Holders) <= 1
    /\ \A p \in Procs : lock_pc[p] = "release_remove" => lock_file \in {-1, p}

(***************************************************************************)
(* Claims about the CDP response handler                                   *)
(***************************************************************************)
\* C7 (as claimed): no two files raw_*.tmp of one job hold the same bytes,
\* whatever the order of the playlist and segment responses.
C7_ContentPersistedOnce ==
    \A m \in 1 .. Len(raw_files), n \in 1 .. Len(raw_files) :
        m # n => raw_files[m] # raw_files[n]

\* C12 (as claimed): within one job the set of seen content digests never
\* loses an element, whatever the order of playlist and segment responses.
C12_FingerprintsOnlyGrow ==
    [][seen_fingerprints \subseteq seen_fingerprints']_vars

(***************************************************************************)
(* Claims about the progress reports and the attempts of                   *)
(* NativeHLSDownloader                                                     *)
(***************************************************************************)
\* C22: with a callback, a round that was not cut short by a cancellation
\* has made one report per task of the round when its last future was
\* collected; every percent reported before the remux step is between 0 and
\* 99; and no percent of 100 or more is reported while download() has not
\* returned True.
C22_ProgressCapped ==
    /\ (pc = "shutdown" /\ \A i \in DOMAIN future : future[i] = "seen")
           => report_count = Cardinality(DOMAIN future)
    /\ (reported_done # -1 /\ ~remux_called)
           => /\ 0 <= reported_percent.num
              /\ reported_percent.num <= 99 * reported_percent.den
    /\ result # "true" => reported_percent.num < 100 * reported_percent.den

\* every segment was reported done: the report carries 99 percent
C22_Witness ==
    /\ pc = "shutdown"
    /\ total_segs = MaxSegs
    /\ report_count = Cardinality(DOMAIN future)
    /\ reported_done = total_segs
    /\ reported_percent.num = 99 * reported_percent.den

\* C25: the completed-segment count of a report is never below the count of
\* the report before it, and never above the number of segments that have
\* non-empty stored content.
C25_ProgressMonotoneTruthful ==
    [][/\ reported_done' >= reported_done
       /\ reported_done' <= Cardinality(DoneSet(store'))]_vars

\* C30: a call of the segment fetcher that reports failure to the scheduler
\* has made 3 attempts.
C30_ThreeAttemptsBeforeFailure ==
    \A i \in DOMAIN future : future[i] = "false" => attempts[i] = 3

(***************************************************************************)
(* Claims about QueueManager                                               *)
(***************************************************************************)
\* C26: no task is lost on its way from the queue to a worker: a task that the
\* scheduler took from the waiting queue was started (a task leaves the
\* queue only through the scheduler or through cancel_task, so a task taken
\* and not started can never be started).
C26_TakenTasksAreStarted == taken \subseteq started

(***************************************************************************)
(* Claims about the request headers                                        *)
(***************************************************************************)
\* every code point of the string fits one byte
SingleByte(str) == \A i \in 1 .. Len(str) : str[i] < 256

\* the entries of a dict with a non-empty single-byte name and value
Sendable(h) ==
    {n \in DOMAIN h : /\ n # << >> /\ h[n] # << >>
                      /\ SingleByte(n) /\ SingleByte(h[n])}

\* C23: _sanitize_headers_strict returns exactly the headers with a non-empty
\* single-byte name and value, unchanged; no header with a code point above
\* 255 is handed to yt-dlp; sanitising the result again gives the result.
C23_HeadersSanitised ==
    /\ hdr_pc \in {"options", "ready", "again"}
           => /\ DOMAIN hdr_clean = Sendable(hdr_raw)
              /\ \A n \in DOMAIN hdr_clean : hdr_clean[n] = hdr_raw[n]
              /\ \A n \in DOMAIN http_headers :
                     /\ SingleByte(n) /\ SingleByte(http_headers[n])
                     /\ http_headers[n] = hdr_raw[n]
    /\ hdr_pc = "again" => hdr_again = hdr_clean

\* a header with a code point above 255 was dropped while one with U+00FF
\* was kept, and the result was sanitised again
C23_Witness ==
    /\ hdr_pc = "again"
    /\ \E n \in DOMAIN hdr_raw \ DOMAIN hdr_clean : ~SingleByte(hdr_raw[n])
    /\ \E n \in DOMAIN hdr_raw \ DOMAIN hdr_clean : ~SingleByte(n)
    /\ \E n \in DOMAIN hdr_clean : hdr_clean[n] = <<255>>

\* C24: a Referer in the caller's headers is the Referer of the session; the
\* page URL becomes the Referer only when the caller's headers have none.
C24_CallerRefererKept ==
    ref_pc = "ready" =>
        /\ "Referer" \in DOMAIN ref_headers
               => session_headers["Referer"] = ref_headers["Referer"]
        /\ ("Referer" \notin DOMAIN ref_headers /\ ref_page_url # "")
               => session_headers["Referer"] = ref_page_url

(***************************************************************************)
(* Claims about the exits of PlaywrightDownloader.download                 *)
(***************************************************************************)
\* C27: a process that has left download() after it acquired the lock no
\* longer has its pid in the lock file nor locked_by_me set, and a process
\* whose _acquire_lock returned False for a cancellation does not hold the
\* lock either.
C27_LockReleasedOnExit ==
    \A p \in Procs :
        lock_pc[p] \in {"released", "raised", "cdp_failed", "returned_false"}
            => lock_file # p /\ ~locked_by_me[p]

(***************************************************************************)
(* Claims about DownloadWorker.run                                         *)
(***************************************************************************)
\* C28: at most one worker is sniffing, the worker that sniffs or is about to
\* is the one that locked GLOBAL_SNIFFER_LOCK, and a worker that has left
\* the try statement (to retry the download or to end, whatever the path)
\* does not hold the mutex.
C28_SniffingSerialised ==
    /\ Cardinality({w \in RunWorkers : run_pc[w] = "sniffing"}) <= 1
    /\ \A w \in RunWorkers :
           /\ run_pc[w] \in {"locked", "sniffing"} => sniffer_lock = w
           /\ run_pc[w] \in {"retry", "done"} => sniffer_lock # w

\* a worker that was cancelled while it waited for the mutex has returned,
\* another worker is sniffing and a third one waits
C28_Witness ==
    \E w1, w2, w3 \in RunWorkers :
        /\ run_pc[w1] = "done" /\ lock_taken[w1] /\ run_signal[w1] = "none"
        /\ run_pc[w2] = "sniffing"
        /\ run_pc[w3] = "wait_lock"

(***************************************************************************)
(* Claims about the key of BrowserDownloader                               *)
(***************************************************************************)
\* C29: the key URI is requested at most once in a job and every decryption
\* of the job uses the same key bytes.
C29_KeyFetchedOnce ==
    /\ bd_key_requests <= 1
    /\ Cardinality(bd_keys_used) <= 1

(***************************************************************************)
(* Claims about a fetch that fails (Part 1).                               *)
(***************************************************************************)
\* C31: a fetch that ends with a status other than 200 or with an exception
\* writes nothing to the store, does not end download() or set its result,
\* leaves the segment without content, and the next round that dispatches
\* tasks dispatches that segment again.
C31_FailedFetchLeavesStore ==
    [][ /\ \A i \in DOMAIN future :
             (future[i] = "running" /\ i \in DOMAIN future'
                  /\ future'[i] = "false")
             => /\ store' = store
                /\ pc' = pc
                /\ result' = result
                /\ outcome' = outcome
                /\ ~HasContent(store', i)
        /\ (pc = "loop" /\ pc' = "collect")
             => failed_fetch \subseteq DOMAIN future'
      ]_vars

\* round 2 has dispatched a segment of which no file was ever written: its
\* fetch of round 1 failed
C31_Witness ==
    /\ pc = "collect"
    /\ round_idx = 2
    /\ \E i \in DOMAIN future : PathOf(i) \notin DOMAIN store

(***************************************************************************)
(* Claims about a decryption that fails (Part 4).                          *)
(***************************************************************************)
\* C32: when the decryption of a fetched segment raises, the bytes written
\* are the bytes that were handed to the decryption, and the file has
\* content, so that line 123 does not select the segment again.
C32_DecryptFailureKeepsSegment ==
    (strip_pc = "written" /\ strip_raised)
    => /\ strip_saved = strip_cipher
       /\ Len(strip_saved) > 0

(***************************************************************************)
(* Claims about the pool and the cooldown of a round (Part 11).            *)
(***************************************************************************)
\* C33: at most 8 tasks are being executed at any instant of round 1 and at
\* most 3 at any instant of a later round; while a round runs, the size of
\* its pool and its index stay what they were when it started.
C33_BoundedPool ==
    [][ /\ sch_running' <= (IF sch_round' = 1 THEN 8 ELSE 3)
        /\ (sch_pc = "pool" /\ sch_pc' = "pool")
             => /\ sch_workers' = sch_workers
                /\ sch_round' = sch_round
        /\ sch_pc' = "pool"
             => sch_workers' = (IF sch_round' = 1 THEN 8 ELSE 3)
      ]_vars

\* round 1 of a playlist of 9 segments: 8 tasks are being executed and the
\* ninth waits for a free pool thread
C33_Witness ==
    /\ sch_pc = "pool"
    /\ sch_round = 1
    /\ sch_running = 8
    /\ sch_queued = 1

\* C34: the step that dispatches round n >= 2 sleeps min(10 + 5n, 60) seconds
\* first (20 for n = 2, 60 for n >= 10); the step that dispatches round 1
\* sleeps not at all, and no other step sleeps, in particular not the one
\* that finds nothing pending; the cooldown never decreases and never exceeds
\* 60.
C34_EscalatingCooldown ==
    [][ /\ (sch_pc = "loop" /\ sch_pc' = "pool" /\ sch_round' >= 2)
             => /\ sch_sleeps' = sch_sleeps + 1
                /\ sch_running' = 0
                /\ sch_cooldown' = (IF 10 + 5 * sch_round' < 60
                                    THEN 10 + 5 * sch_round' ELSE 60)
                /\ sch_round' = 2 => sch_cooldown' = 20
                /\ sch_round' >= 10 => sch_cooldown' = 60
        /\ ~(sch_pc = "loop" /\ sch_pc' = "pool" /\ sch_round' >= 2)
             => /\ sch_sleeps' = sch_sleeps
                /\ sch_cooldown' = sch_cooldown
        /\ sch_cooldown' >= sch_cooldown
        /\ sch_cooldown' <= 60
      ]_vars

\* round 11 was dispatched after a cooldown of 60 seconds, the tenth sleep
C34_Witness ==
    /\ sch_pc = "pool"
    /\ sch_round = 11
    /\ sch_cooldown = 60
    /\ sch_sleeps = 10

(***************************************************************************)
(* Claims about the choice of the variant (Part 12).                       *)
(***************************************************************************)
\* the downloader has the segment list, or has given up
Resolved == mf_pc = "done"

\* C35: when the playlist at the URL given is a master playlist and its
\* request succeeded, a variant is selected whose bandwidth is at least that
\* of every other variant, its playlist is requested exactly once and no
\* other variant's is requested, and the segments are taken from it.
C35_BestVariantFetchedOnce ==
    (Resolved /\ mf_variants # << >> /\ mf_source # "none")
    => /\ mf_selected \in DOMAIN mf_variants
       /\ \A j \in DOMAIN mf_variants :
              mf_variants[mf_selected] >= mf_variants[j]
       /\ mf_fetches[mf_selected] = 1
       /\ \A j \in DOMAIN mf_variants : j # mf_selected => mf_fetches[j] = 0
       /\ mf_source = "variant"

(***************************************************************************)
(* Claims about CoreManager and its workers (Part 13).                     *)
(***************************************************************************)
\* C36: a call of start_download returns True exactly when a sniff has
\* succeeded since the last reset and no download worker is running, and
\* then it starts exactly one worker; otherwise it returns False, starts
\* none and leaves the sniff result, self.download_worker and the workers as
\* they were.  Never are two download workers running.
C36_OneDownloadAfterSniff ==
    [][ /\ cm_calls' # cm_calls
             => LET ok == cm_sniffed /\ Running(dw_pc) = {}
                    started_now == Running(dw_pc') \ Running(dw_pc)
                IN  /\ (cm_ret' = "true") <=> ok
                    /\ ok => Cardinality(started_now) = 1
                    /\ ~ok => /\ cm_ret' = "false"
                              /\ started_now = {}
                              /\ UNCHANGED <<cm_url, cm_headers, cm_worker, dw_pc>>
        /\ Cardinality(Running(dw_pc')) <= 1
      ]_vars

\* C37: a run of a DownloadWorker that has ended has emitted finished_signal
\* exactly once and a run that has not ended has not emitted it; when cancel()
\* was called before the download returned, the result emitted is not
\* success; no progress_signal is emitted after cancel().
C37_OneTerminalSignal ==
    \A w \in DownloadWorkers :
        /\ dw_emits[w] = (IF dw_pc[w] = "done" THEN 1 ELSE 0)
        /\ dw_cancel_early[w] => dw_emitted[w] # "true"
        /\ ~dw_late_progress[w]

(***************************************************************************)
(* Claims about the signals of the queue (Part 6).                         *)
(***************************************************************************)
\* C39: queue_finished is emitted only by a step that leaves the waiting
\* queue and the active set empty and is_processing false, once at a time;
\* every session that start_processing has opened and that is over
\* (is_processing is false again) has had its one queue_finished, and the
\* session that is open has had none yet.
C39_QueueFinishedOncePerSession ==
    [][ /\ queue_finished' # queue_finished
             => /\ queue_finished' = queue_finished + 1
                /\ waiting_queue' = << >>
                /\ active_workers' = {}
                /\ is_processing' = FALSE
        /\ ~is_processing' => queue_finished' = queue_started'
        /\ is_processing' => queue_finished' = queue_started' - 1
      ]_vars

====
